---- MODULE Spec2Model ----
(***************************************************************************)
(* Event-sourced state engine of RFSN-NPC: the reducer, the StateStore     *)
(* with its begin/commit/abort transactions, the StreamTransaction that    *)
(* drives it, and the BoundedQueue.                                        *)
(*                                                                         *)
(* Affinity is a float in [-1.0, 1.0] in the source; it is modelled in     *)
(* fixed point, in tenths (0.5 is 5), so AffMin/AffMax are -10 and 10.     *)
(***************************************************************************)
EXTENDS Integers, Sequences, FiniteSets, TLC

VARIABLES
    store,      \* the StateStore object
    last,       \* history: the latest dispatch, its result and the store before it
    base,       \* history: per open transaction, the store at its BEGIN
    heap,       \* the objects of the latest reduce_state call, before and after it
    objs,       \* the objects of a store and of its callers: the heap, the addresses
                \* of StateStore._state and ._facts, the addresses the callers hold
    lock,       \* owner of StateStore._lock, NONE when free
    wpc,        \* the dispatching thread's position inside dispatch
    dpc,        \* where several threads dispatch: each one's position inside dispatch
    rpc,        \* the reading thread's position inside get_snapshot
    observed,   \* what the reading thread's latest call returned
    views,      \* history: the (state, facts) pairs the store held outside a commit's replay
    txn,        \* the StreamTransaction object
    tpc,        \* positions of the threads inside StreamTransaction.commit and .abort,
                \* with the events commit has dispatched and the view it started from
    tres,       \* the latest completed StreamTransaction call: its name, whether it raised
    bq,         \* the BoundedQueue object, with the waiters of its two conditions
    qpc,        \* position of each producer and consumer thread inside put and get
    pipe        \* the Pipeline object, with the BoundedQueue of each of its stages

histVars == <<last, base, heap, objs>>
concVars == <<lock, wpc, dpc, rpc, observed, views>>
txnVars == <<txn, tpc, tres>>
queueVars == <<bq, qpc, pipe>>
vars == <<store, last, base, heap, objs, lock, wpc, dpc, rpc, observed, views, txn, tpc, tres, bq, qpc,
          pipe>>

\* ---------------------------------------------------------------- bounds
\* The dispatches made to a store whose subscribers change the subscriptions.
MaxNotify == 2

\* Pipeline: the default maxsize of its stages, and the number of put calls
\* made on one stage.
PipeMaxsize == 1
MaxStagePuts == 2

\* BoundedQueue: its maxsize, and the number of put calls made on it.
QueueCap == 2
MaxPuts == 4
\* Number of add_text, add_audio and queue_* calls made on an active
\* StreamTransaction, and of dispatches other components make beside it.
MaxQueued == 2
MaxOther == 1
\* Number of dispatches a behaviour of the store specifications makes.
MaxDispatch == 4
\* Number of get_snapshot/get_facts_snapshot calls of a behaviour of the
\* specification of the store's objects.
MaxSnapshots == 2
\* Number of events dispatched in a behaviour of that specification.
MaxCopyEvents == 1
\* Number of writes of the callers to the objects they hold.
MaxWrites == 2
\* Number of dispatches of a behaviour of the specification of two
\* transactions open at the same time.
MaxIsoDispatch == 5
\* Number of dispatch calls of a behaviour of the specification of several
\* dispatching threads.
MaxParDispatch == 3
\* Number of events of a behaviour of the specification of fact admission.
MaxAdmit == 2
\* Number of events of a behaviour of the reducer specification.
MaxReduce == 3
\* max_event_log handed to StateStore.__init__ (default 1000).
MaxEventLog == 3

\* ------------------------------------------------------------- constants
AffMin == -10
AffMax == 10
\* Admission limit of _handle_fact_add, len(text) > 2000.
MaxFactLen == 2000

NONE == "None"
TxnIds == {"t1"}
Times == {1, 2}

\* ------------------------------------------------------------ event model
ControlTypes == {"TRANSACTION_BEGIN", "TRANSACTION_COMMIT", "TRANSACTION_ABORT"}

StateEvent(type, payload, convo) ==
    [event_type |-> type, payload |-> payload, seq |-> 0, convo_id |-> convo]

affinity_delta_event(delta, convo) ==
    StateEvent("AFFINITY_DELTA", [delta |-> delta, numeric |-> TRUE], convo)

\* An AFFINITY_DELTA whose payload delta is not a number (a str): the
\* addition at reducer.py:54 raises TypeError.
bad_affinity_event(convo) ==
    StateEvent("AFFINITY_DELTA", [delta |-> 0, numeric |-> FALSE], convo)

mood_set_event(mood, convo) ==
    StateEvent("MOOD_SET", [mood |-> mood], convo)

fact_add_event(text, len, forbidden, convo) ==
    StateEvent("FACT_ADD",
               [text |-> text, len |-> len, forbidden |-> forbidden,
                salience |-> 5], convo)

turn_add_event(role, content, convo) ==
    StateEvent("TURN_ADD", [role |-> role, content |-> content], convo)

\* player_event(npc_id, event_type_str, strength, tags)
player_event(event_type_str, strength, convo) ==
    StateEvent("PLAYER_EVENT",
               [player_event_type |-> event_type_str, strength |-> strength], convo)

\* The event types that have no factory function are built with StateEvent.
fact_decay_event(decay_rate, min_salience) ==
    StateEvent("FACT_DECAY", [decay_rate |-> decay_rate, min_salience |-> min_salience], NONE)

fact_reinforce_event(fragment, boost) ==
    StateEvent("FACT_REINFORCE", [fragment |-> fragment, boost |-> boost], NONE)

state_reset_event(affinity, mood) ==
    StateEvent("STATE_RESET", [affinity |-> affinity, mood |-> mood], NONE)

\* has says whether the payload holds the key "state_dict".
state_load_event(has, affinity, mood, recent_memory) ==
    StateEvent("STATE_LOAD",
               [has |-> has,
                state_dict |-> [affinity |-> affinity, mood |-> mood,
                                recent_memory |-> recent_memory]], NONE)

\* EventType members with no entry in _EVENT_HANDLERS.
UnhandledTypes ==
    {"TURN_ADD", "TURN_CLEAR", "FACT_REMOVE", "RELATIONSHIP_UPDATE", "STATE_SNAPSHOT"}

transaction_begin_event(convo) == StateEvent("TRANSACTION_BEGIN", [reason |-> ""], convo)
transaction_commit_event(convo) == StateEvent("TRANSACTION_COMMIT", [reason |-> ""], convo)
transaction_abort_event(convo) == StateEvent("TRANSACTION_ABORT", [reason |-> "abort"], convo)

\* ---------------------------------------------------------------- reducer
clamp(x, lo, hi) == IF x < lo THEN lo ELSE IF x > hi THEN hi ELSE x

Result(state, facts, emitted) ==
    [raised |-> FALSE, state |-> state, facts |-> facts, emitted |-> emitted]

Raise(state, facts) ==
    [raised |-> TRUE, state |-> state, facts |-> facts, emitted |-> NONE]

_handle_affinity_delta(state, facts, payload) ==
    IF ~payload.numeric
    THEN Raise(state, facts)
    ELSE Result([state EXCEPT !.affinity = clamp(state.affinity + payload.delta, AffMin, AffMax)],
                facts, NONE)

_handle_mood_set(state, facts, payload) ==
    Result([state EXCEPT !.mood = payload.mood], facts, NONE)

\* A text as the list of its characters.
\* Mutant of lower: the text is compared as it is written.
LowerIdentity(text) == text

LowerOf ==
    [A |-> "a", B |-> "b", C |-> "c", D |-> "d", E |-> "e", F |-> "f", G |-> "g",
     H |-> "h", I |-> "i", J |-> "j", K |-> "k", L |-> "l", M |-> "m", N |-> "n",
     O |-> "o", P |-> "p", Q |-> "q", R |-> "r", S |-> "s", T |-> "t", U |-> "u",
     V |-> "v", W |-> "w", X |-> "x", Y |-> "y", Z |-> "z"]

\* str.lower() on texts of ASCII characters.
lower(text) ==
    [i \in DOMAIN text |-> IF text[i] \in DOMAIN LowerOf THEN LowerOf[text[i]] ELSE text[i]]

\* `b in text` for two strings.
IsSubstring(b, text) ==
    \E i \in 1..(Len(text) - Len(b) + 1) : SubSeq(text, i, i + Len(b) - 1) = b

\* The list of line 86.
ForbiddenTokens ==
    {<<"<", "|">>, <<"|", ">">>,
     <<"s", "y", "s", "t", "e", "m", " ", "i", "n", "s", "t", "r", "u", "c", "t", "i", "o", "n">>}

\* any(b in text.lower() for b in ["<|", "|>", "system instruction"])
AnyForbidden(text) == \E b \in ForbiddenTokens : IsSubstring(b, lower(text))

\* fact_add_event for a text given by its characters: len is len(text) and
\* forbidden the value of the test of line 86.
fact_add_chars(text, convo) == fact_add_event(text, Len(text), AnyForbidden(text), convo)

_handle_fact_add(state, facts, payload, now) ==
    IF payload.len > MaxFactLen
    THEN Result(state, facts, NONE)
    ELSE IF payload.forbidden
    THEN Result(state, facts, NONE)
    ELSE Result(state,
                Append(facts, [text |-> payload.text, time |-> now,
                               salience |-> payload.salience]),
                payload.text)

Max2(a, b) == IF a >= b THEN a ELSE b
Min2(a, b) == IF a <= b THEN a ELSE b

\* Salience is a float in [0, 1] in the source, in tenths here.
SalienceMax == 10
\* StateStore.__init__: max_event_log: int = 1000
DefaultEventLog == 1000

_handle_fact_decay(state, facts, payload) ==
    Result(state,
           [i \in DOMAIN facts |->
               IF facts[i].salience > payload.min_salience
               THEN [facts[i] EXCEPT !.salience =
                        Max2(payload.min_salience, facts[i].salience - payload.decay_rate)]
               ELSE facts[i]],
           NONE)

\* `fragment in fact.text.lower()`: the fragments drawn are whole fact texts
\* or a text no fact holds, so containment is equality of the two strings.
Contains(fragment, text) == fragment = text

_handle_fact_reinforce(state, facts, payload) ==
    IF payload.fragment = ""
    THEN Result(state, facts, NONE)
    ELSE Result(state,
                [i \in DOMAIN facts |->
                    IF Contains(payload.fragment, facts[i].text)
                    THEN [facts[i] EXCEPT !.salience =
                             Min2(SalienceMax, facts[i].salience + payload.boost)]
                    ELSE facts[i]],
                NONE)

\* _AFFINITY_MAP, in hundredths, and _MOOD_MAP.
_AFFINITY_MAP == [GIFT |-> 15, PUNCH |-> -35, TALK |-> 0]
_MOOD_MAP == [GIFT |-> "Pleased", PUNCH |-> "Angry"]

\* strength is drawn so that the product is a whole number of tenths.
_handle_player_event(state, facts, payload) ==
    LET t == payload.player_event_type
        delta == IF t \in DOMAIN _AFFINITY_MAP
                 THEN (_AFFINITY_MAP[t] * payload.strength) \div 10 ELSE 0
        s1 == [state EXCEPT !.affinity = clamp(state.affinity + delta, AffMin, AffMax)]
    IN Result(IF t \in DOMAIN _MOOD_MAP THEN [s1 EXCEPT !.mood = _MOOD_MAP[t]] ELSE s1,
              facts, NONE)

_handle_state_reset(state, facts, payload) ==
    Result([state EXCEPT !.affinity = payload.affinity,
                         !.mood = payload.mood,
                         !.recent_memory = ""],
           facts, NONE)

_handle_state_load(state, facts, payload) ==
    IF ~payload.has
    THEN Result(state, facts, NONE)
    ELSE Result([state EXCEPT !.affinity = payload.state_dict.affinity,
                              !.mood = payload.state_dict.mood,
                              !.recent_memory = payload.state_dict.recent_memory],
                facts, NONE)

_handle_noop(state, facts, payload) == Result(state, facts, NONE)

\* Mutant of UnknownType: an event type with no handler is an error.
UnknownTypeRaises(state, facts) == Raise(state, facts)

\* reduce_state, lines 236-238: `if handler is None`.
UnknownType(state, facts) == Result(state, facts, NONE)

\* reduce_state: the dispatch table _EVENT_HANDLERS; a type with no handler
\* returns its inputs.  now is the value datetime.now() yields inside
\* _handle_fact_add.
reduce_state(state, event, facts, now) ==
    CASE event.event_type = "AFFINITY_DELTA" ->
            _handle_affinity_delta(state, facts, event.payload)
      [] event.event_type = "MOOD_SET" ->
            _handle_mood_set(state, facts, event.payload)
      [] event.event_type = "FACT_ADD" ->
            _handle_fact_add(state, facts, event.payload, now)
      [] event.event_type = "FACT_DECAY" ->
            _handle_fact_decay(state, facts, event.payload)
      [] event.event_type = "FACT_REINFORCE" ->
            _handle_fact_reinforce(state, facts, event.payload)
      [] event.event_type = "PLAYER_EVENT" ->
            _handle_player_event(state, facts, event.payload)
      [] event.event_type = "STATE_RESET" ->
            _handle_state_reset(state, facts, event.payload)
      [] event.event_type = "STATE_LOAD" ->
            _handle_state_load(state, facts, event.payload)
      [] event.event_type \in ControlTypes ->
            _handle_noop(state, facts, event.payload)
      [] OTHER -> UnknownType(state, facts)

\* reduce_events raises as soon as one reduce_state raises.
RECURSIVE reduce_events(_, _, _, _)
reduce_events(state, events, facts, nows) ==
    IF events = <<>>
    THEN [raised |-> FALSE, state |-> state, facts |-> facts]
    ELSE LET r == reduce_state(state, Head(events), facts, Head(nows))
         IN IF r.raised
            THEN [raised |-> TRUE, state |-> state, facts |-> facts]
            ELSE reduce_events(r.state, Tail(events), r.facts, Tail(nows))

\* ------------------------------------------ the reducer on Python objects
\* reduce_state receives references.  The heap H is the sequence of the
\* objects that exist, an object's address being its index: an RFSNState, a
\* Fact, or a list [items |-> the addresses of its Facts].  A handler of this
\* section allocates and writes objects as the source does and takes the
\* values it writes from the handler of the same name above.

\* Mutant of copy_copy: no copy is made, the caller works on the object itself.
NoCopy(H, a) == [heap |-> H, addr |-> a]

\* copy.copy(obj): a new object with the fields of H[a].
copy_copy(H, a) == [heap |-> Append(H, H[a]), addr |-> Len(H) + 1]

\* The list of Fact values the list object at l holds.
FactsAt(H, l) == [i \in DOMAIN H[l].items |-> H[H[l].items[i]]]

ObjResult(H, state, facts, emitted, raised) ==
    [heap |-> H, state |-> state, facts |-> facts, emitted |-> emitted, raised |-> raised]

\* `new_state = copy.copy(state)` followed by assignments to its fields; the
\* copy exists before the assignment that can raise.
o_state_handler(H, s, f, r) ==
    LET c == copy_copy(H, s)
    IN IF r.raised
       THEN ObjResult(c.heap, s, f, NONE, TRUE)
       ELSE ObjResult([c.heap EXCEPT ![c.addr] = r.state], c.addr, f, NONE, FALSE)

\* _handle_fact_add: `new_facts = list(facts)` and the append of a new Fact.
o_handle_fact_add(H, s, f, r) ==
    IF r.emitted = NONE
    THEN ObjResult(H, s, f, NONE, FALSE)
    ELSE LET H1 == Append(H, [items |-> H[f].items])
             l == Len(H1)
             H2 == Append(H1, r.facts[Len(r.facts)])
         IN ObjResult([H2 EXCEPT ![l].items = Append(@, Len(H2))], s, l, r.emitted, FALSE)

\* `[copy.copy(f) for f in facts]`: the heap with the copies, and their addresses.
RECURSIVE CopyEach(_, _)
CopyEach(H, items) ==
    IF items = <<>>
    THEN [heap |-> H, items |-> <<>>]
    ELSE LET c == copy_copy(H, Head(items))
             rest == CopyEach(c.heap, Tail(items))
         IN [heap |-> rest.heap, items |-> <<c.addr>> \o rest.items]

\* The assignments `fact.salience = ...` to the objects at items, for the
\* positions whose value changes.
RECURSIVE WriteSalience(_, _, _, _)
WriteSalience(H, items, values, i) ==
    IF i > Len(items) THEN H
    ELSE WriteSalience(IF H[items[i]].salience = values[i].salience THEN H
                       ELSE [H EXCEPT ![items[i]].salience = values[i].salience],
                       items, values, i + 1)

\* _handle_fact_decay: every Fact is copied, then the copies are written.
o_handle_fact_decay(H, s, f, r) ==
    LET c == CopyEach(H, H[f].items)
        H1 == Append(c.heap, [items |-> c.items])
    IN ObjResult(WriteSalience(H1, c.items, r.facts, 1), s, Len(H1), NONE, FALSE)

\* _handle_fact_reinforce: the Facts are copied at the first match; with no
\* match the list given is returned.
o_handle_fact_reinforce(H, s, f, r, payload) ==
    IF payload.fragment = ""
    THEN ObjResult(H, s, f, NONE, FALSE)
    ELSE LET H0 == Append(H, [items |-> H[f].items])
         IN IF r.facts = FactsAt(H, f)
            THEN ObjResult(H0, s, f, NONE, FALSE)
            ELSE LET c == CopyEach(H0, H[f].items)
                     H1 == Append(c.heap, [items |-> c.items])
                 IN ObjResult(WriteSalience(H1, c.items, r.facts, 1), s, Len(H1), NONE, FALSE)

\* reduce_state on the objects at s (the state) and f (the facts list).
o_reduce_state(H, s, f, event, now) ==
    LET r == reduce_state(H[s], event, FactsAt(H, f), now)
        t == event.event_type
    IN CASE t \in {"AFFINITY_DELTA", "MOOD_SET", "PLAYER_EVENT", "STATE_RESET"} ->
                o_state_handler(H, s, f, r)
         [] t = "STATE_LOAD" ->
                IF event.payload.has THEN o_state_handler(H, s, f, r)
                ELSE ObjResult(H, s, f, NONE, FALSE)
         [] t = "FACT_ADD" -> o_handle_fact_add(H, s, f, r)
         [] t = "FACT_DECAY" -> o_handle_fact_decay(H, s, f, r)
         [] t = "FACT_REINFORCE" -> o_handle_fact_reinforce(H, s, f, r, event.payload)
         [] OTHER -> ObjResult(H, s, f, NONE, FALSE)

\* The objects a caller holds for a state and a list of facts: the state at
\* address 1, the Facts after it, the list last.
Objects(state, facts) ==
    <<state>> \o facts \o <<[items |-> [i \in DOMAIN facts |-> i + 1]]>>

\* One call of reduce_state on fresh objects: the heap before, the arguments
\* and what the call returned.
CallOnObjects(state, facts, event, now) ==
    LET H == Objects(state, facts)
    IN [called |-> TRUE, pre |-> H, state |-> 1, facts |-> Len(H), event |-> event,
        now |-> now, res |-> o_reduce_state(H, 1, Len(H), event, now)]

NoCall ==
    [called |-> FALSE, pre |-> <<>>, state |-> 0, facts |-> 0,
     event |-> transaction_abort_event(NONE), now |-> 0,
     res |-> ObjResult(<<>>, 0, 0, NONE, FALSE)]

\* Mutant of deepcopy: the object itself is handed over.
NoDeepCopy(H, a) == [heap |-> H, addr |-> a]

\* copy.deepcopy(obj): for a list, new Facts and a new list of them; for an
\* RFSNState or a Fact, whose fields hold no object of the model, a new object.
deepcopy(H, a) ==
    IF "items" \in DOMAIN H[a]
    THEN LET c == CopyEach(H, H[a].items)
         IN [heap |-> Append(c.heap, [items |-> c.items]), addr |-> Len(c.heap) + 1]
    ELSE copy_copy(H, a)

\* The addresses reachable from the objects at the addresses in as.
Reachable(H, as) ==
    as \cup UNION {IF "items" \in DOMAIN H[a] THEN {H[a].items[i] : i \in DOMAIN H[a].items} ELSE {} : a \in as}

\* StateStore.__init__, lines 80-81, on the caller's objects at s and f:
\* `copy.deepcopy(initial_state)` and
\* `copy.deepcopy(initial_facts) if initial_facts else []`.
NewObjects(H, s, f) ==
    LET cs == deepcopy(H, s)
        cf == IF H[f].items = <<>>
              THEN [heap |-> Append(cs.heap, [items |-> <<>>]), addr |-> Len(cs.heap) + 1]
              ELSE deepcopy(cs.heap, f)
    IN [heap |-> cf.heap, state |-> cs.addr, facts |-> cf.addr,
        held |-> Reachable(H, {s, f}), calls |-> 0, writes |-> 0]

NoObjects ==
    [heap |-> <<>>, state |-> 0, facts |-> 0, held |-> {}, calls |-> 0, writes |-> 0]

\* ------------------------------------------------------------- StateStore
\* The callbacks registered with subscribe before the first dispatch, in
\* registration order, and those among them that raise when invoked.
Subscribers == <<"s1", "s2">>
Raisers == {"s1"}

\* The store object: the fields StateStore.__init__ sets, plus two logs that
\* observe it: reduced (the events handed to reduce_state, in call order) and
\* notified (the subscriber invocations, in call order).
NewStore(initial_state, initial_facts, max_event_log) ==
    [state |-> initial_state,
     facts |-> initial_facts,
     seq |-> 0,
     max_event_log |-> max_event_log,
     event_log |-> <<>>,
     transactions |-> << >>,
     subscribers |-> Subscribers,
     notified |-> <<>>,
     reduced |-> <<>>]

\* Mutant of DequeAppend: a full deque refuses the new item.
DequeAppendKeepsOldest(q, x, maxlen) ==
    IF Len(q) >= maxlen THEN q ELSE Append(q, x)

\* deque(maxlen=n).append
DequeAppend(q, x, maxlen) ==
    IF maxlen = 0 THEN q
    ELSE IF Len(q) >= maxlen THEN Append(Tail(q), x)
    ELSE Append(q, x)

\* Mutant of NotifyAll: the loop ends at the first subscriber that raises.
RECURSIVE NotifyUntilRaise(_, _, _, _)
NotifyUntilRaise(notified, subs, state, event) ==
    IF subs = <<>> THEN notified
    ELSE LET n == Append(notified, [sub |-> Head(subs), seq |-> event.seq, state |-> state])
         IN IF Head(subs) \in Raisers THEN n
            ELSE NotifyUntilRaise(n, Tail(subs), state, event)

\* _apply_event, lines 155-160: every subscriber is called with the new
\* state and the event inside its own try/except, so a subscriber that raises
\* is logged and the loop goes on.
RECURSIVE NotifyAll(_, _, _, _)
NotifyAll(notified, subs, state, event) ==
    IF subs = <<>> THEN notified
    ELSE NotifyAll(Append(notified, [sub |-> Head(subs), seq |-> event.seq, state |-> state]),
                   Tail(subs), state, event)

\* Mutant of _apply_event: no try/except around the reduction, so the
\* reducer's exception leaves the call.
ApplyEventUnguarded(S, event, now) ==
    LET r == reduce_state(S.state, event, S.facts, now)
        S1 == [S EXCEPT !.reduced = Append(@, event.seq)]
    IN IF r.raised
       THEN [store |-> S1, ret |-> FALSE, raises |-> TRUE]
       ELSE [store |-> [S1 EXCEPT !.state = r.state,
                                  !.facts = r.facts,
                                  !.notified = NotifyAll(@, S.subscribers, r.state, event)],
             ret |-> TRUE, raises |-> FALSE]

\* StateStore._apply_event, called with the lock held.  The try/except of
\* lines 147-167 turns a raising reduce_state into "return False"; raises
\* says whether an exception leaves the call.
_apply_event(S, event, now) ==
    LET r == reduce_state(S.state, event, S.facts, now)
        S1 == [S EXCEPT !.reduced = Append(@, event.seq)]
    IN IF r.raised
       THEN [store |-> S1, ret |-> FALSE, raises |-> FALSE]
       ELSE [store |-> [S1 EXCEPT !.state = r.state,
                                  !.facts = r.facts,
                                  !.notified = NotifyAll(@, S.subscribers, r.state, event)],
             ret |-> TRUE, raises |-> FALSE]

\* Mutant of _begin_transaction: a BEGIN always opens an empty transaction.
BeginReplaces(S, event) ==
    [S EXCEPT !.transactions =
        [t \in DOMAIN @ \cup {event.convo_id} |-> IF t = event.convo_id THEN <<>> ELSE @[t]]]

\* StateStore._begin_transaction
_begin_transaction(S, event) ==
    IF event.convo_id \in DOMAIN S.transactions
    THEN S
    ELSE [S EXCEPT !.transactions = @ @@ (event.convo_id :> <<>>)]

\* Mutant of RemoveTxn: every open transaction is dropped.
RemoveEveryTxn(txns, convo) == << >>

RemoveTxn(txns, convo) == [t \in (DOMAIN txns) \ {convo} |-> txns[t]]

\* Mutant of ReplayEvents: the buffered events are replayed last to first.
RECURSIVE ReplayReversed(_, _, _)
ReplayReversed(S, events, nows) ==
    IF events = <<>> THEN S
    ELSE ReplayReversed(_apply_event(S, events[Len(events)], nows[Len(events)]).store,
                        SubSeq(events, 1, Len(events) - 1), nows)

\* The loop of _commit_transaction over txn.events.
RECURSIVE ReplayEvents(_, _, _)
ReplayEvents(S, events, nows) ==
    IF events = <<>> THEN S
    ELSE ReplayEvents(_apply_event(S, Head(events), Head(nows)).store,
                      Tail(events), Tail(nows))

\* Mutant of _commit_transaction: the commit returns what the last replayed
\* event returned.
CommitReturnsLastApplied(S, event, nows) ==
    IF event.convo_id = NONE \/ event.convo_id \notin DOMAIN S.transactions
    THEN [store |-> S, ret |-> FALSE, raises |-> FALSE]
    ELSE LET popped == S.transactions[event.convo_id]
             S1 == [S EXCEPT !.transactions = RemoveTxn(@, event.convo_id)]
             S2 == ReplayEvents(S1, popped, nows)
         IN [store |-> S2, ret |-> S2.notified # S1.notified, raises |-> FALSE]

\* Mutant of _commit_transaction: the buffer is popped and not replayed.
CommitDiscards(S, event, nows) ==
    IF event.convo_id = NONE \/ event.convo_id \notin DOMAIN S.transactions
    THEN [store |-> S, ret |-> FALSE, raises |-> FALSE]
    ELSE [store |-> [S EXCEPT !.transactions = RemoveTxn(@, event.convo_id)],
          ret |-> TRUE, raises |-> FALSE]

\* StateStore._commit_transaction
_commit_transaction(S, event, nows) ==
    IF event.convo_id = NONE \/ event.convo_id \notin DOMAIN S.transactions
    THEN [store |-> S, ret |-> FALSE, raises |-> FALSE]
    ELSE LET popped == S.transactions[event.convo_id]
             S1 == [S EXCEPT !.transactions = RemoveTxn(@, event.convo_id)]
         IN [store |-> ReplayEvents(S1, popped, nows), ret |-> TRUE, raises |-> FALSE]

\* Mutant of _abort_transaction: the buffered events are applied, not discarded.
AbortApplies(S, event) ==
    _commit_transaction(S, event, [i \in 1..(S.seq + 1) |-> 1]).store

\* StateStore._abort_transaction
_abort_transaction(S, event) ==
    IF event.convo_id = NONE \/ event.convo_id \notin DOMAIN S.transactions
    THEN S
    ELSE [S EXCEPT !.transactions = RemoveTxn(@, event.convo_id)]

\* Mutant of AssignSeq: a transaction-control event takes no new number.
AssignSeqSkipsControl(S, ev) ==
    LET n == IF ev.event_type \in ControlTypes THEN S.seq ELSE S.seq + 1
    IN [S EXCEPT !.seq = n,
                 !.event_log = DequeAppend(@, [ev EXCEPT !.seq = n], S.max_event_log)]

\* dispatch, lines 108-121: the sequence number and the event log.
AssignSeq(S, ev) ==
    LET event == [ev EXCEPT !.seq = S.seq + 1]
    IN [S EXCEPT !.seq = S.seq + 1,
                 !.event_log = DequeAppend(@, event, S.max_event_log)]

\* The Python slice items[start:] of a list.
SliceFrom(items, start) ==
    LET first == IF start < 0 THEN Max2(Len(items) + start, 0) ELSE Min2(start, Len(items))
    IN SubSeq(items, first + 1, Len(items))

\* StateStore.get_event_log(n); given says whether n was passed (n is not None).
get_event_log(S, given, n) ==
    IF given THEN SliceFrom(S.event_log, -n) ELSE S.event_log

\* Mutant of IsBuffered: no event is held back.
IsBufferedNever(S, event) == FALSE

\* dispatch, line 136: the event belongs to an active transaction.
IsBuffered(S, event) ==
    event.convo_id # NONE /\ event.convo_id \in DOMAIN S.transactions

\* StateStore.dispatch, the whole body under self._lock.  nows holds the
\* clock readings of the reductions the dispatch makes, in order.
dispatch(S, ev, nows) ==
    LET S1 == AssignSeq(S, ev)
        event == [ev EXCEPT !.seq = S1.seq]
    IN CASE event.event_type = "TRANSACTION_BEGIN" ->
                [store |-> _begin_transaction(S1, event), ret |-> FALSE, raises |-> FALSE]
         [] event.event_type = "TRANSACTION_COMMIT" ->
                _commit_transaction(S1, event, nows)
         [] event.event_type = "TRANSACTION_ABORT" ->
                [store |-> _abort_transaction(S1, event), ret |-> FALSE, raises |-> FALSE]
         [] OTHER ->
                IF IsBuffered(S1, event)
                THEN [store |-> [S1 EXCEPT !.transactions[event.convo_id] = Append(@, event)],
                      ret |-> FALSE, raises |-> FALSE]
                ELSE _apply_event(S1, event, nows[1])

get_snapshot(S) == S.state
get_facts_snapshot(S) == S.facts

\* The events a dispatch of ev reduces, in order.
Reductions(S, ev) ==
    CASE ev.event_type = "TRANSACTION_COMMIT" ->
            IF ev.convo_id \in DOMAIN S.transactions THEN S.transactions[ev.convo_id] ELSE <<>>
      [] ev.event_type \in ControlTypes -> <<>>
      [] OTHER -> IF IsBuffered(S, ev) THEN <<>> ELSE <<ev>>

\* The clock readings those reductions can make: only _handle_fact_add reads
\* the clock (reducer.py:95); the other positions are fixed.
NowSeqs(events) ==
    {f \in [1..Len(events) -> Times] :
        \A i \in 1..Len(events) : events[i].event_type # "FACT_ADD" => f[i] = 1}

\* ------------------------------------------------ sequential store machine
DataEvents(c) ==
    {affinity_delta_event(5, c), affinity_delta_event(-3, c), bad_affinity_event(c),
     mood_set_event("Happy", c), fact_add_event("fact", 4, FALSE, c)}

ControlEvents(c) ==
    {transaction_begin_event(c), transaction_commit_event(c), transaction_abort_event(c)}

Inputs ==
    UNION {DataEvents(c) : c \in TxnIds \cup {NONE}} \cup UNION {ControlEvents(c) : c \in TxnIds}

InitialState == [affinity |-> 7, mood |-> "Neutral", recent_memory |-> ""]

NoLast ==
    [event |-> transaction_abort_event(NONE), ret |-> FALSE, raises |-> FALSE,
     pre |-> NewStore(InitialState, <<>>, 0), nows |-> <<>>]

\* The events, with their clock readings, that a dispatch of ev changes
\* state or facts with: those of its reductions that do not raise.
RECURSIVE AppliedOf(_, _, _, _)
AppliedOf(state, facts, events, nows) ==
    IF events = <<>> THEN <<>>
    ELSE LET r == reduce_state(state, Head(events), facts, Head(nows))
         IN IF r.raised
            THEN AppliedOf(state, facts, Tail(events), Tail(nows))
            ELSE <<[event |-> Head(events), now |-> Head(nows)]>>
                    \o AppliedOf(r.state, r.facts, Tail(events), Tail(nows))

\* History of the open transactions, kept beside the store to state the
\* properties: base[t].pre is the store as it was when t was begun,
\* base[t].events the events dispatched with transaction_id t since, in
\* dispatch order, and base[t].clean whether nothing else was dispatched since.
\* base[t].again says that BEGIN t was dispatched again since, and
\* base[t].intact that nothing but events carrying t and BEGIN t was.
\* base[t].others holds the events that dispatches not carrying t applied
\* since, in order, with their clock readings, and base[t].ended the control
\* event that closed t, NONE while t is open.
UpdateBase(b, S, ev, nows) ==
    IF ev.event_type = "TRANSACTION_BEGIN" /\ ev.convo_id \notin DOMAIN S.transactions
    THEN [t \in DOMAIN b \cup {ev.convo_id} |->
            IF t = ev.convo_id
            THEN [pre |-> S, clean |-> TRUE, events |-> <<>>, intact |-> TRUE, again |-> FALSE,
                  others |-> <<>>, ended |-> NONE]
            ELSE [b[t] EXCEPT !.clean = FALSE, !.intact = FALSE]]
    ELSE [t \in DOMAIN b |->
            IF ev.convo_id = t /\ ev.event_type \notin ControlTypes
            THEN [b[t] EXCEPT !.events = Append(@, [ev EXCEPT !.seq = S.seq + 1])]
            ELSE IF ev.convo_id = t /\ ev.event_type # "TRANSACTION_BEGIN"
            THEN [b[t] EXCEPT !.ended = IF t \in DOMAIN S.transactions THEN ev.event_type ELSE @]
            ELSE IF ev.convo_id = t
            THEN [b[t] EXCEPT !.clean = FALSE, !.again = TRUE]
            ELSE [b[t] EXCEPT !.clean = FALSE, !.intact = FALSE,
                              !.others = @ \o AppliedOf(S.state, S.facts, Reductions(S, ev), nows)]]

View(S) == [state |-> get_snapshot(S), facts |-> get_facts_snapshot(S)]

WriterIdle == [pc |-> "idle", pending |-> <<>>, k |-> 0]
ReaderIdle == [pc |-> "idle", call |-> NONE, during |-> FALSE]
NoRead == [call |-> NONE, value |-> <<>>, during |-> FALSE]

Dispatchers == {"d1", "d2"}
DispatcherIdle ==
    [pc |-> "idle", event |-> transaction_abort_event(NONE), res |-> <<>>,
     blocked |-> FALSE, calls |-> 0]

ConcInit ==
    /\ lock = NONE
    /\ wpc = WriterIdle
    /\ dpc = [t \in Dispatchers |-> DispatcherIdle]
    /\ rpc = ReaderIdle
    /\ observed = NoRead
    /\ views = {View(NewStore(InitialState, <<>>, MaxEventLog))}

\* StreamTransaction(npc_id, store): the dataclass defaults.
NewTxn ==
    [convo_id |-> "t1", seq |-> 0, started |-> FALSE, committed |-> FALSE,
     aborted |-> FALSE, text_buffer |-> <<>>, audio_chunks |-> <<>>,
     pending_events |-> <<>>, frames |-> <<>>, metadata |-> << >>]

ThreadsIdle ==
    [c |-> "idle", a |-> "idle", x |-> "idle", i |-> 0, sent |-> {}, frame |-> <<>>,
     pre |-> View(NewStore(InitialState, <<>>, MaxEventLog)), nows |-> <<>>,
     begun |-> View(NewStore(InitialState, <<>>, MaxEventLog)), clean |-> TRUE,
     others |-> 0]

TxnInit ==
    /\ txn = NewTxn
    /\ tpc = ThreadsIdle
    /\ tres = [op |-> NONE, raises |-> FALSE]

Producers == {"p1", "p2"}
Consumers == {"c1"}
Items == {"a", "b"}
Policies == {"OLDEST", "NEWEST", "BLOCK"}

\* BoundedQueue.__init__ with the defaults of stage and on_drop; mutex is
\* the owner of _lock where a thread keeps it between two steps, NONE
\* otherwise, and four more fields observe the queue: cleared records whether
\* clear() was ever called, puts the items of the put calls in call order,
\* putter the thread of the latest put call and called the invocations of
\* on_drop.
NewQueue(maxsize, drop_policy) ==
    [maxsize |-> maxsize, drop_policy |-> drop_policy, stage |-> "unknown", on_drop |-> NONE,
     queue |-> <<>>, mutex |-> NONE,
     put_count |-> 0, get_count |-> 0, drop_count |-> 0, drops |-> <<>>,
     not_full |-> <<>>, not_empty |-> <<>>, cleared |-> FALSE,
     puts |-> <<>>, putter |-> NONE, called |-> <<>>]

\* BoundedQueue.__init__ with all four arguments.
BoundedQueue(maxsize, drop_policy, stage, on_drop) ==
    [NewQueue(maxsize, drop_policy) EXCEPT !.stage = stage, !.on_drop = on_drop]

\* Pipeline.__init__
Pipeline(default_maxsize, default_policy) ==
    [default_maxsize |-> default_maxsize, default_policy |-> default_policy,
     queues |-> << >>, drop_callback |-> NONE]

NewPipeline == Pipeline(PipeMaxsize, "OLDEST")

QThreadIdle == [pc |-> "idle", item |-> NONE, ret |-> NONE, timeout |-> NONE]

\* The timeout argument of put and get: None, the default, or a number of
\* seconds.
Timeouts == {NONE, "seconds"}

StoreInit ==
    /\ store = NewStore(InitialState, <<>>, MaxEventLog)
    /\ last = NoLast
    /\ base = << >>
    /\ heap = NoCall
    /\ objs = NoObjects

Init ==
    /\ StoreInit
    /\ ConcInit
    /\ TxnInit
    /\ bq = NewQueue(QueueCap, "OLDEST")
    /\ qpc = [t \in Producers \cup Consumers |-> QThreadIdle]
    /\ pipe = NewPipeline

Dispatch ==
    /\ store.seq < MaxDispatch
    /\ \E ev \in Inputs :
         \E nows \in NowSeqs(Reductions(store, ev)) :
            LET r == dispatch(store, ev, nows)
            IN /\ store' = r.store
               /\ last' = [event |-> ev, ret |-> r.ret, raises |-> r.raises,
                           pre |-> store, nows |-> nows]
               /\ base' = UpdateBase(base, store, ev, nows)
    /\ UNCHANGED <<heap, objs, concVars, txnVars, queueVars>>

Next == Dispatch

Spec == Init /\ [][Next]_vars

\* ----------------------------------------------------------------- claims
Range(f) == {f[i] : i \in DOMAIN f}
Min(a, b) == IF a <= b THEN a ELSE b

FirstItems(items, k) == SubSeq(items, 1, k)
LastItems(items, k) == SubSeq(items, Len(items) - k + 1, Len(items))
Seqs(events) == {events[i].seq : i \in DOMAIN events}

LastType == last.event.event_type
LastTxn == last.event.convo_id
LastWasOpen == LastTxn \in DOMAIN last.pre.transactions

\* last is the control event that ends the open transaction LastTxn, and
\* since its BEGIN only events carrying its id were dispatched.
EndsCleanTxn(type) ==
    /\ LastType = type
    /\ LastWasOpen
    /\ LastTxn \in DOMAIN base
    /\ base[LastTxn].clean

\* C1: after BEGIN t, k events carrying transaction_id t and ABORT t, state
\* and facts equal their values before the BEGIN, none of the k events was
\* handed to the reducer, and t is no longer open.
C1_AbortRestoresPreBegin ==
    EndsCleanTxn("TRANSACTION_ABORT") =>
        /\ get_snapshot(store) = get_snapshot(base[LastTxn].pre)
        /\ get_facts_snapshot(store) = get_facts_snapshot(base[LastTxn].pre)
        /\ Seqs(base[LastTxn].events) \cap Range(store.reduced) = {}
        /\ store.reduced = base[LastTxn].pre.reduced
        /\ LastTxn \notin DOMAIN store.transactions

C1_Witness ==
    /\ EndsCleanTxn("TRANSACTION_ABORT")
    /\ Len(base[LastTxn].events) >= 2
    /\ \E i \in DOMAIN base[LastTxn].events :
          /\ base[LastTxn].events[i].event_type = "AFFINITY_DELTA"
          /\ base[LastTxn].events[i].payload.numeric
    /\ LastTxn \notin DOMAIN store.transactions

\* C2: after BEGIN t, k events carrying transaction_id t and COMMIT t, state
\* and facts equal reduce_events of the k events, in dispatch order, on the
\* state and facts before the BEGIN (whenever reduce_events returns), and t
\* is no longer open.
C2_CommitEqualsReduceEvents ==
    EndsCleanTxn("TRANSACTION_COMMIT") =>
        LET b == base[LastTxn]
            ref == reduce_events(b.pre.state, b.events, b.pre.facts, last.nows)
        IN /\ LastTxn \notin DOMAIN store.transactions
           /\ ~ref.raised =>
                /\ get_snapshot(store) = ref.state
                /\ get_facts_snapshot(store) = ref.facts

\* A commit of two affinity events whose order shows in the result because
\* the first one is clamped.
C2_Witness ==
    /\ EndsCleanTxn("TRANSACTION_COMMIT")
    /\ Len(base[LastTxn].events) = 2
    /\ base[LastTxn].events[1].payload = [delta |-> 5, numeric |-> TRUE]
    /\ base[LastTxn].events[2].payload = [delta |-> -3, numeric |-> TRUE]
    /\ base[LastTxn].pre.state.affinity = 7
    /\ store.state.affinity = 7

\* C4: an event dispatched with the id of an open transaction returns false,
\* is appended to that transaction's buffer, notifies nobody and leaves state
\* and facts as they were.
C4_BufferedEventInvisible ==
    (LastType \notin ControlTypes /\ LastWasOpen) =>
        /\ last.ret = FALSE
        /\ LastTxn \in DOMAIN store.transactions
        /\ store.transactions[LastTxn] =
              Append(last.pre.transactions[LastTxn], [last.event EXCEPT !.seq = store.seq])
        /\ store.notified = last.pre.notified
        /\ store.reduced = last.pre.reduced
        /\ get_snapshot(store) = get_snapshot(last.pre)
        /\ get_facts_snapshot(store) = get_facts_snapshot(last.pre)

C4_Witness ==
    /\ LastType = "AFFINITY_DELTA"
    /\ last.event.payload.numeric
    /\ LastWasOpen
    /\ Len(store.transactions[LastTxn]) = 2
    /\ last.ret = FALSE

\* C8: every dispatch takes the sequence number after the previous one, so
\* the event log holds consecutive, strictly increasing numbers ending at the
\* number of the latest dispatch.
C8_SequenceGapFree ==
    /\ store.seq = last.pre.seq + (IF last = NoLast THEN 0 ELSE 1)
    /\ \A i \in 1..(Len(store.event_log) - 1) :
          store.event_log[i + 1].seq = store.event_log[i].seq + 1
    /\ store.event_log # <<>> => store.event_log[Len(store.event_log)].seq = store.seq
    /\ \A t \in DOMAIN store.transactions :
          \A i \in 1..(Len(store.transactions[t]) - 1) :
             store.transactions[t][i].seq < store.transactions[t][i + 1].seq

\* The log holds a control event, a buffered event and an applied event.
C8_Witness ==
    /\ Len(store.event_log) = 3
    /\ store.event_log[1].event_type = "TRANSACTION_BEGIN"
    /\ store.event_log[2].convo_id = "t1"
    /\ store.event_log[2].event_type = "MOOD_SET"
    /\ store.event_log[3].convo_id = NONE
    /\ "t1" \in DOMAIN store.transactions

\* last is an event applied at once whose reduction raises.
LastRaisedImmediately ==
    /\ last # NoLast
    /\ LastType \notin ControlTypes
    /\ ~LastWasOpen
    /\ reduce_state(last.pre.state, last.event, last.pre.facts, 1).raised

\* C9: when the reducer raises on an event applied at once, dispatch does not
\* raise, returns false, leaves state and facts as before and notifies nobody.
C9_ReducerErrorNotApplied ==
    LastRaisedImmediately =>
        /\ ~last.raises
        /\ last.ret = FALSE
        /\ get_snapshot(store) = get_snapshot(last.pre)
        /\ get_facts_snapshot(store) = get_facts_snapshot(last.pre)
        /\ store.notified = last.pre.notified

C9_Witness ==
    /\ LastRaisedImmediately
    /\ store.seq >= 2
    /\ store.reduced # <<>>
    /\ store.reduced[Len(store.reduced)] = store.seq

\* Whether some reduction of the replay of events raises.
RECURSIVE ReplayRaises(_, _, _)
ReplayRaises(S, events, nows) ==
    IF events = <<>> THEN FALSE
    ELSE LET r == _apply_event(S, Head(events), Head(nows))
         IN ~r.ret \/ ReplayRaises(r.store, Tail(events), Tail(nows))

\* C10: a commit during whose replay the reducer raises on some buffered
\* event leaves state and facts as they were before the commit.
C10_FailedCommitAllOrNothing ==
    (/\ LastType = "TRANSACTION_COMMIT"
     /\ LastWasOpen
     /\ ReplayRaises(last.pre, last.pre.transactions[LastTxn], last.nows)) =>
        /\ get_snapshot(store) = get_snapshot(last.pre)
        /\ get_facts_snapshot(store) = get_facts_snapshot(last.pre)

\* last is the control event that ends the open transaction LastTxn, for
\* which BEGIN was dispatched again while it was open, only events carrying
\* its id being dispatched beside.
EndsRebegunTxn(type) ==
    /\ LastType = type
    /\ LastWasOpen
    /\ LastTxn \in DOMAIN base
    /\ base[LastTxn].intact
    /\ base[LastTxn].again

\* C14: TRANSACTION_BEGIN for an open transaction leaves the transaction
\* table, with the events buffered so far in their order, and state and facts
\* as they were; a later commit applies all the events buffered before and
\* after it, and a later abort leaves the state held before the first BEGIN;
\* either removes the one entry.
C14_RebeginKeepsTransaction ==
    /\ (LastType = "TRANSACTION_BEGIN" /\ LastWasOpen) =>
          /\ store.transactions = last.pre.transactions
          /\ View(store) = View(last.pre)
          /\ last.ret = FALSE
    /\ EndsRebegunTxn("TRANSACTION_COMMIT") =>
          LET b == base[LastTxn]
              ref == reduce_events(b.pre.state, b.events, b.pre.facts, last.nows)
          IN /\ LastTxn \notin DOMAIN store.transactions
             /\ Len(last.nows) = Len(b.events)
             /\ ~ref.raised => View(store) = [state |-> ref.state, facts |-> ref.facts]
    /\ EndsRebegunTxn("TRANSACTION_ABORT") =>
          /\ LastTxn \notin DOMAIN store.transactions
          /\ View(store) = View(base[LastTxn].pre)

\* BEGIN is dispatched for a transaction that holds two buffered events.
C14_Witness ==
    /\ LastType = "TRANSACTION_BEGIN"
    /\ LastWasOpen
    /\ Len(store.transactions[LastTxn]) = 2
    /\ store.transactions[LastTxn][1].payload = [delta |-> 5, numeric |-> TRUE]
    /\ store.transactions[LastTxn][2].payload = [delta |-> -3, numeric |-> TRUE]

\* C15: TRANSACTION_COMMIT or TRANSACTION_ABORT naming no open transaction
\* raises to the caller and leaves state, facts and the transaction table as
\* they were.
C15_UnmatchedEndRaises ==
    (/\ last # NoLast
     /\ LastType \in {"TRANSACTION_COMMIT", "TRANSACTION_ABORT"}
     /\ ~LastWasOpen) =>
        /\ last.raises
        /\ View(store) = View(last.pre)
        /\ store.transactions = last.pre.transactions

\* The subscriber invocations the claim allows for the reduction of events,
\* in order, on state and facts: one per subscriber, in registration order,
\* for each event whose reduction returns, with the state it returns.
RECURSIVE ExpectedNotes(_, _, _, _)
ExpectedNotes(state, facts, events, nows) ==
    IF events = <<>> THEN <<>>
    ELSE LET r == reduce_state(state, Head(events), facts, Head(nows))
         IN IF r.raised
            THEN ExpectedNotes(state, facts, Tail(events), Tail(nows))
            ELSE [i \in DOMAIN Subscribers |->
                     [sub |-> Subscribers[i], seq |-> Head(events).seq, state |-> r.state]]
                 \o ExpectedNotes(r.state, r.facts, Tail(events), Tail(nows))

\* The events the latest dispatch handed to the reducer, with their numbers.
LastReduced ==
    LET evs == Reductions(last.pre, last.event)
    IN [i \in DOMAIN evs |->
           IF LastType = "TRANSACTION_COMMIT" THEN evs[i]
           ELSE [evs[i] EXCEPT !.seq = last.pre.seq + 1]]

\* C20: a dispatch invokes every subscriber once, in turn, with the state
\* after the reduction and the event, for each event it reduces without
\* error, and nobody otherwise: not for a control event, not for an event it
\* buffers, not for the events an abort discards.  A subscriber that raises
\* does not keep the later ones from being invoked, and the dispatch of an
\* event applied at once still returns true, does not raise and keeps the
\* reduced state.
C20_SubscribersNotifiedOncePerAppliedEvent ==
    last # NoLast =>
        /\ store.notified =
              last.pre.notified
                  \o ExpectedNotes(last.pre.state, last.pre.facts, LastReduced, last.nows)
        /\ (/\ LastType \notin ControlTypes
            /\ ~LastWasOpen
            /\ ~reduce_state(last.pre.state, last.event, last.pre.facts, last.nows[1]).raised) =>
               /\ last.ret
               /\ ~last.raises
               /\ store.state =
                     reduce_state(last.pre.state, last.event, last.pre.facts, last.nows[1]).state

\* A commit replays two events: the first subscriber, which raises, and the
\* second one are invoked for each, nobody having been notified while the
\* events were buffered.
C20_Witness ==
    /\ LastType = "TRANSACTION_COMMIT"
    /\ LastWasOpen
    /\ Len(last.pre.transactions[LastTxn]) = 2
    /\ last.pre.notified = <<>>
    /\ Len(store.notified) = 4
    /\ store.notified[1].sub \in Raisers
    /\ store.notified[2].sub = "s2"
    /\ store.notified[2].seq = store.notified[1].seq
    /\ store.notified[3].state # store.notified[1].state

\* C29: dispatch returns True exactly when the event carries no id of an
\* open transaction, is no control event and its reduction succeeded, or
\* when it is the COMMIT of an open transaction; every BEGIN, every ABORT and
\* every event buffered into an open transaction returns False.
C29_DispatchReturnValue ==
    last # NoLast =>
        /\ last.ret <=>
              \/ /\ LastType \notin ControlTypes
                 /\ ~LastWasOpen
                 /\ ~reduce_state(last.pre.state, last.event, last.pre.facts,
                                  last.nows[1]).raised
              \/ LastType = "TRANSACTION_COMMIT" /\ LastWasOpen
        /\ LastType \in {"TRANSACTION_BEGIN", "TRANSACTION_ABORT"} => ~last.ret
        /\ (LastType \notin ControlTypes /\ LastWasOpen) => ~last.ret
        /\ ~last.raises

\* The COMMIT of an open transaction that holds nothing but an event the
\* reducer rejects returned True.
C29_Witness ==
    /\ LastType = "TRANSACTION_COMMIT"
    /\ LastWasOpen
    /\ last.ret
    /\ Len(last.pre.transactions[LastTxn]) = 1
    /\ last.pre.transactions[LastTxn][1].payload = bad_affinity_event(LastTxn).payload
    /\ View(store) = View(last.pre)

\* The subscriber invocations the latest dispatch made.
LastNotes == SubSeq(store.notified, Len(last.pre.notified) + 1, Len(store.notified))

\* C32: during the COMMIT of a transaction that holds two events or more,
\* every subscriber invocation carries the state the commit ends with, which
\* is also what get_snapshot() returns to the subscriber: never the state
\* after only a part of the transaction's events.
C32_SubscribersSeeWholeCommit ==
    (/\ LastType = "TRANSACTION_COMMIT"
     /\ LastWasOpen
     /\ Len(last.pre.transactions[LastTxn]) >= 2) =>
        \A i \in DOMAIN LastNotes : LastNotes[i].state = get_snapshot(store)

\* The events and the clock readings of a list of applied events.
EventsOf(applied) == [i \in DOMAIN applied |-> applied[i].event]
NowsOf(applied) == [i \in DOMAIN applied |-> applied[i].now]

\* The last dispatch carried an event that is not a control event and does
\* not belong to an open transaction, while a transaction was open.
ImmediateBesideOpen ==
    /\ LastType \notin ControlTypes
    /\ ~IsBuffered(last.pre, last.event)
    /\ DOMAIN last.pre.transactions # {}

\* C35: while a transaction t is open, an event dispatched with no
\* transaction_id, or with the id of no open transaction, is reduced by its
\* own dispatch and leaves the buffers alone; and after COMMIT t, state and
\* facts are reduce_events, on the state and facts before BEGIN t, of the
\* events applied that way in dispatch order followed by the events buffered
\* for t, wherever those were dispatched in between.
C35_OpenTransactionDelaysNoWrite ==
    /\ ImmediateBesideOpen =>
          LET r == reduce_state(last.pre.state, last.event, last.pre.facts, last.nows[1])
          IN /\ store.reduced = Append(last.pre.reduced, store.seq)
             /\ store.transactions = last.pre.transactions
             /\ ~r.raised =>
                   /\ last.ret = TRUE
                   /\ View(store) = [state |-> r.state, facts |-> r.facts]
    /\ (LastType = "TRANSACTION_COMMIT" /\ LastWasOpen) =>
          LET b == base[LastTxn]
              ref == reduce_events(b.pre.state, EventsOf(b.others) \o b.events, b.pre.facts,
                                   NowsOf(b.others) \o last.nows)
          IN ~ref.raised => View(store) = [state |-> ref.state, facts |-> ref.facts]

\* BEGIN t1, an affinity change of -0.3 carrying t1, one of +0.5 carrying no
\* id, COMMIT t1: +0.5 was applied first and clamped, then -0.3, which gives
\* the initial 0.7, where the dispatch order would have given 0.9.
C35_Witness ==
    /\ LastType = "TRANSACTION_COMMIT" /\ LastWasOpen
    /\ base[LastTxn].pre.state.affinity = 7
    /\ Len(base[LastTxn].events) = 1
    /\ base[LastTxn].events[1].payload = [delta |-> -3, numeric |-> TRUE]
    /\ Len(base[LastTxn].others) = 1
    /\ base[LastTxn].others[1].event.payload = [delta |-> 5, numeric |-> TRUE]
    /\ base[LastTxn].events[1].seq < store.reduced[1]
    /\ store.reduced = <<3, 2>>
    /\ store.state.affinity = 7

\* The last dispatch carried a data event with the id of a transaction that
\* was aborted and not begun again.
CarriesAbortedId ==
    /\ LastType \notin ControlTypes
    /\ LastTxn \in DOMAIN base
    /\ base[LastTxn].ended = "TRANSACTION_ABORT"
    /\ LastTxn \notin DOMAIN last.pre.transactions

\* C36: an event carrying the id of an aborted transaction, dispatched after
\* the ABORT, is not handed to the reducer and changes neither state nor
\* facts.
C36_AbortedIdNeverReduced ==
    CarriesAbortedId =>
        /\ store.reduced = last.pre.reduced
        /\ View(store) = View(last.pre)

\* C37: while the event log holds every event dispatched so far and no
\* transaction is open, reduce_events of the logged events in sequence order,
\* from the state and facts the store was built with, returns the store's
\* state and facts, for some clock readings of its own: events of committed
\* and of aborted transactions included.
C37_EventLogReplaysToState ==
    (Len(store.event_log) = store.seq /\ DOMAIN store.transactions = {}) =>
        \E nows \in NowSeqs(store.event_log) :
            LET ref == reduce_events(InitialState, store.event_log, <<>>, nows)
            IN ref.raised \/ View(store) = [state |-> ref.state, facts |-> ref.facts]

\* C25: the event log never holds more than max_event_log events; every
\* dispatch appends its event at the tail and, when the log is full, drops
\* the head, so after N dispatches the log holds the events numbered
\* N - min(N, max_event_log) + 1 .. N in dispatch order.
C25_EventLogBounded ==
    LET log == store.event_log
        n == Min(store.seq, store.max_event_log)
    IN /\ Len(log) <= store.max_event_log
       /\ Len(log) = n
       /\ \A i \in DOMAIN log : log[i].seq = store.seq - n + i
       /\ last # NoLast =>
             log = LastItems(Append(last.pre.event_log,
                                    [last.event EXCEPT !.seq = store.seq]), n)

\* One dispatch more than the log can hold: the first event, a BEGIN, is
\* gone and the log starts at the second.
C25_Witness ==
    /\ store.seq = store.max_event_log + 1
    /\ Len(store.event_log) = store.max_event_log
    /\ store.event_log[1].seq = 2
    /\ store.event_log[1].event_type = "MOOD_SET"
    /\ store.event_log[1].convo_id = "t1"
    /\ "t1" \in DOMAIN store.transactions
    /\ last.pre.event_log[1].event_type = "TRANSACTION_BEGIN"

\* C26: for every n >= 0, get_event_log(n) returns the last min(n, L) of the
\* L events the log holds, in arrival order, so get_event_log(0) returns the
\* empty list; get_event_log() returns all L events.
C26_GetEventLogReturnsLastN ==
    /\ \A n \in 0..(store.max_event_log + 1) :
          get_event_log(store, TRUE, n) =
             LastItems(store.event_log, Min(n, Len(store.event_log)))
    /\ get_event_log(store, FALSE, 0) = store.event_log

\* ------------------------------ subscribers that change the subscriptions
\* A callback runs on the dispatching thread, inside dispatch's `with
\* self._lock`; the lock is an RLock, so the callback's own subscribe and
\* unsubscribe calls go through and change self._subscribers while the loop
\* of _apply_event is iterating over it.
LiveSubscribers == <<"s1", "s2", "s3">>

\* The callback a subscriber registers when it calls subscribe.
NewOf == [s1 |-> "s4", s2 |-> "s5", s3 |-> "s6"]

\* What a callback does when it is invoked: it returns, or it calls the
\* unsubscribe function of a subscriber, or it subscribes a new callback.
JustReturns == [op |-> "returns", arg |-> NONE]
CallbackActs(sub) ==
    {JustReturns, [op |-> "subscribe", arg |-> NewOf[sub]]}
        \cup {[op |-> "unsubscribe", arg |-> LiveSubscribers[i]] : i \in DOMAIN LiveSubscribers}

\* list.remove(x): the list without the first occurrence of x.
RECURSIVE remove(_, _)
remove(items, x) ==
    IF items = <<>> THEN <<>>
    ELSE IF Head(items) = x THEN Tail(items)
    ELSE <<Head(items)>> \o remove(Tail(items), x)

\* StateStore.subscribe, lines 249-250
subscribe(S, callback) == [S EXCEPT !.subscribers = Append(@, callback)]

\* The function subscribe returned for callback, lines 252-255.
unsubscribe(S, callback) ==
    IF \E i \in DOMAIN S.subscribers : S.subscribers[i] = callback
    THEN [S EXCEPT !.subscribers = remove(@, callback)]
    ELSE S

\* The body of the callback `sub`; a callback that was subscribed by
\* another one returns.
CallSubscriber(S, sub, does) ==
    LET act == IF sub \in DOMAIN does THEN does[sub] ELSE JustReturns
    IN CASE act.op = "subscribe" -> subscribe(S, act.arg)
         [] act.op = "unsubscribe" -> unsubscribe(S, act.arg)
         [] OTHER -> S

\* _apply_event, lines 155-160: `for sub in self._subscribers` is a list
\* iterator, which holds an index into the list object and at each step
\* returns the item at that index of the list as it is then, until the index
\* reaches the list's length.
RECURSIVE NotifyLive(_, _, _, _, _)
NotifyLive(S, index, state, event, does) ==
    IF index > Len(S.subscribers) THEN S
    ELSE LET sub == S.subscribers[index]
             S1 == [S EXCEPT !.notified =
                       Append(@, [sub |-> sub, seq |-> event.seq, state |-> state])]
         IN NotifyLive(CallSubscriber(S1, sub, does), index + 1, state, event, does)

\* _apply_event with callbacks that change the subscriptions.
ApplyEventLive(S, event, now, does) ==
    LET r == reduce_state(S.state, event, S.facts, now)
        S1 == [S EXCEPT !.reduced = Append(@, event.seq)]
    IN IF r.raised
       THEN [store |-> S1, ret |-> FALSE, raises |-> FALSE]
       ELSE [store |-> NotifyLive([S1 EXCEPT !.state = r.state, !.facts = r.facts],
                                  1, r.state, event, does),
             ret |-> TRUE, raises |-> FALSE]

LiveEvents == {affinity_delta_event(-3, NONE), mood_set_event("Happy", NONE)}

\* dispatch of an event that belongs to no transaction.
N_Dispatch ==
    /\ store.seq < MaxNotify
    /\ \E ev \in LiveEvents :
         \E does \in [{"s1", "s2", "s3"} -> UNION {CallbackActs(LiveSubscribers[i]) :
                                                    i \in DOMAIN LiveSubscribers}] :
            /\ \A sub \in DOMAIN does :
                  /\ does[sub] \in CallbackActs(sub)
                  /\ does[sub].op = "subscribe" =>
                        \A i \in DOMAIN store.subscribers : store.subscribers[i] # does[sub].arg
            /\ LET S1 == AssignSeq(store, ev)
                   r == ApplyEventLive(S1, [ev EXCEPT !.seq = S1.seq], 1, does)
               IN /\ store' = r.store
                  /\ last' = [event |-> ev, ret |-> r.ret, raises |-> r.raises,
                              pre |-> store, nows |-> <<1>>]
    /\ UNCHANGED <<base, heap, objs, concVars, txnVars, queueVars>>

NotifyInit ==
    /\ store = [NewStore(InitialState, <<>>, DefaultEventLog)
                   EXCEPT !.subscribers = LiveSubscribers]
    /\ last = NoLast
    /\ base = << >>
    /\ heap = NoCall
    /\ objs = NoObjects
    /\ ConcInit
    /\ TxnInit
    /\ bq = NewQueue(QueueCap, "OLDEST")
    /\ qpc = [t \in Producers \cup Consumers |-> QThreadIdle]
    /\ pipe = NewPipeline

NotifyNext == N_Dispatch

SpecNotify == NotifyInit /\ [][NotifyNext]_vars

\* How many of the invocations in notes are invocations of sub.
Invocations(notes, sub) == Cardinality({i \in DOMAIN notes : notes[i].sub = sub})

\* C38: when the callbacks invoked for an event call unsubscribe functions
\* or subscribe, every subscriber that was registered before the event and is
\* still registered after it was invoked exactly once for the event, and no
\* subscriber was invoked twice.
C38_NotifySurvivesSubscriptionChanges ==
    (last # NoLast /\ last.ret) =>
        /\ \A sub \in Range(last.pre.subscribers) \cap Range(store.subscribers) :
              Invocations(LastNotes, sub) = 1
        /\ \A sub \in Range(store.subscribers) \cup Range(last.pre.subscribers) :
              Invocations(LastNotes, sub) <= 1

\* ------------------------------------- two transactions on one store
IsoTxnIds == {"t1", "t2"}

IsoInputs ==
    UNION {ControlEvents(c) \cup {affinity_delta_event(-3, c), mood_set_event("Happy", c)} :
             c \in IsoTxnIds}

IsoDispatch ==
    /\ store.seq < MaxIsoDispatch
    /\ \E ev \in IsoInputs :
         \E nows \in NowSeqs(Reductions(store, ev)) :
            LET r == dispatch(store, ev, nows)
            IN /\ store' = r.store
               /\ last' = [event |-> ev, ret |-> r.ret, raises |-> r.raises,
                           pre |-> store, nows |-> nows]
               /\ base' = UpdateBase(base, store, ev, nows)
    /\ UNCHANGED <<heap, objs, concVars, txnVars, queueVars>>

IsoNext == IsoDispatch

SpecIso == Init /\ [][IsoNext]_vars

\* The transactions open before the last dispatch other than the one its
\* event names are open after it with the same buffers.
OthersIntact ==
    \A u \in (DOMAIN last.pre.transactions) \ {LastTxn} :
        /\ u \in DOMAIN store.transactions
        /\ store.transactions[u] = last.pre.transactions[u]

\* C22: with several transactions open on one store, the buffer of each holds
\* exactly the events dispatched with its id since its BEGIN; an event
\* carrying an open id changes no other buffer; an ABORT drops its own
\* transaction only and reduces nothing; a COMMIT reduces exactly its own
\* buffer, in order, and leaves the other transactions and their buffers as
\* they were.
C22_TransactionsIsolated ==
    /\ \A u \in DOMAIN store.transactions :
          store.transactions[u] = base[u].events
    /\ (LastType \notin ControlTypes /\ LastWasOpen) =>
          /\ OthersIntact
          /\ store.transactions[LastTxn] =
                Append(last.pre.transactions[LastTxn],
                       [last.event EXCEPT !.seq = store.seq])
          /\ View(store) = View(last.pre)
    /\ (LastType = "TRANSACTION_ABORT" /\ LastWasOpen) =>
          /\ OthersIntact
          /\ DOMAIN store.transactions = (DOMAIN last.pre.transactions) \ {LastTxn}
          /\ View(store) = View(last.pre)
          /\ store.reduced = last.pre.reduced
    /\ (LastType = "TRANSACTION_COMMIT" /\ LastWasOpen) =>
          LET own == last.pre.transactions[LastTxn]
              ref == reduce_events(last.pre.state, own, last.pre.facts, last.nows)
          IN /\ OthersIntact
             /\ DOMAIN store.transactions = (DOMAIN last.pre.transactions) \ {LastTxn}
             /\ store.reduced = last.pre.reduced \o [i \in DOMAIN own |-> own[i].seq]
             /\ ~ref.raised => View(store) = [state |-> ref.state, facts |-> ref.facts]

\* t1 and t2 are open with one event each, interleaved, and t1 is committed:
\* the state shows t1's event only and t2 still holds its own.
C22_Witness ==
    /\ LastType = "TRANSACTION_COMMIT"
    /\ LastTxn = "t1"
    /\ LastWasOpen
    /\ "t2" \in DOMAIN store.transactions
    /\ Len(store.transactions["t2"]) = 1
    /\ store.transactions["t2"][1].event_type = "AFFINITY_DELTA"
    /\ Len(last.pre.transactions["t1"]) = 1
    /\ last.pre.transactions["t1"][1].event_type = "MOOD_SET"
    /\ last.pre.transactions["t1"][1].seq > store.transactions["t2"][1].seq
    /\ store.state = [InitialState EXCEPT !.mood = "Happy"]

\* ------------------------------------------------- the reducer, all types
\* Events of every type, with payloads inside and outside the ranges the
\* fields are meant to have, are dispatched outside any transaction to a
\* store built on a drawn state and a drawn list of facts.

Fact(text, time, salience) == [text |-> text, time |-> time, salience |-> salience]

ReducerStates ==
    {[InitialState EXCEPT !.affinity = a] : a \in {AffMin, 0, AffMax}}

ReducerFacts ==
    {<<>>, <<Fact("fact", 1, 5)>>, <<Fact("fact", 1, 5), Fact("note", 1, 9)>>}

ReducerEvents ==
    {affinity_delta_event(5, NONE), affinity_delta_event(-3, NONE), bad_affinity_event(NONE),
     mood_set_event("Happy", NONE),
     fact_add_event("fact", 4, FALSE, NONE),
     fact_add_event("long", MaxFactLen + 1, FALSE, NONE),
     fact_add_event("<|", 2, TRUE, NONE),
     fact_decay_event(3, 4), fact_reinforce_event("", 2),
     fact_reinforce_event("fact", 2), fact_reinforce_event("zzz", 2),
     player_event("GIFT", 2, NONE), player_event("PUNCH", 4, NONE),
     player_event("TALK", 2, NONE), player_event("DANCE", 2, NONE),
     state_reset_event(0, "Neutral"), state_reset_event(25, "Calm"),
     state_load_event(FALSE, 0, "Neutral", ""), state_load_event(TRUE, -30, "Sad", "mem")}
    \cup {StateEvent(t, [reason |-> ""], NONE) : t \in UnhandledTypes}
    \cup ControlEvents("t1")

ReduceInit ==
    /\ \E s0 \in ReducerStates, f0 \in ReducerFacts : store = NewStore(s0, f0, 0)
    /\ last = NoLast
    /\ base = << >>
    /\ heap = NoCall
    /\ objs = NoObjects
    /\ ConcInit
    /\ TxnInit
    /\ bq = NewQueue(QueueCap, "OLDEST")
    /\ qpc = [t \in Producers \cup Consumers |-> QThreadIdle]
    /\ pipe = NewPipeline

Reduce ==
    /\ store.seq < MaxReduce
    /\ \E ev \in ReducerEvents :
         \E nows \in NowSeqs(Reductions(store, ev)) :
            LET r == dispatch(store, ev, nows)
            IN /\ store' = r.store
               /\ last' = [event |-> ev, ret |-> r.ret, raises |-> r.raises,
                           pre |-> store, nows |-> nows]
               /\ heap' = IF Reductions(store, ev) = <<>>
                          THEN NoCall
                          ELSE CallOnObjects(store.state, store.facts, ev, nows[1])
    /\ UNCHANGED <<base, objs, concVars, txnVars, queueVars>>

ReduceNext == Reduce

SpecReduce == ReduceInit /\ [][ReduceNext]_vars

\* C16: from a state whose affinity lies in [-1.0, 1.0], after any sequence
\* of events of any type, with any payload values, the affinity lies in
\* [-1.0, 1.0].
C16_AffinityStaysInRange ==
    store.state.affinity \in AffMin..AffMax

\* C17: after reduce_state, for every event type, every object that existed
\* before the call, the state, the facts list and each Fact among them, has
\* the field values it had before; what the call computed is held by the
\* returned state and facts.
C17_ReduceStateLeavesInputs ==
    heap.called =>
        LET r == reduce_state(heap.pre[heap.state], heap.event,
                              FactsAt(heap.pre, heap.facts), heap.now)
        IN /\ \A a \in DOMAIN heap.pre : heap.res.heap[a] = heap.pre[a]
           /\ heap.res.raised = r.raised
           /\ ~r.raised =>
                 /\ heap.res.heap[heap.res.state] = r.state
                 /\ FactsAt(heap.res.heap, heap.res.facts) = r.facts
                 /\ heap.res.emitted = r.emitted

\* A FACT_REINFORCE that raises the salience of one of two facts.
C17_Witness ==
    /\ heap.called
    /\ heap.event.event_type = "FACT_REINFORCE"
    /\ Len(FactsAt(heap.pre, heap.facts)) = 2
    /\ FactsAt(heap.pre, heap.facts)[1].salience = 5
    /\ FactsAt(heap.res.heap, heap.res.facts)[1].salience = 7
    /\ heap.res.facts # heap.facts

\* C18: two calls of reduce_state on the same state, facts and event, made
\* at any two clock readings, return the same state, facts and emitted fact.
C18_ReduceStateDeterministic ==
    last # NoLast =>
        \A n1, n2 \in Times :
            reduce_state(last.pre.state, last.event, last.pre.facts, n1)
                = reduce_state(last.pre.state, last.event, last.pre.facts, n2)

\* C19: for an event whose type has no handler, and for a transaction-control
\* event, reduce_state returns the given state and facts and does not raise;
\* a dispatch of an event of a type with no handler, outside any transaction,
\* does not raise and leaves state and facts as they were.
C19_UnhandledTypesAreNoOps ==
    (last # NoLast /\ LastType \in UnhandledTypes \cup ControlTypes) =>
        /\ \A n \in Times :
              reduce_state(last.pre.state, last.event, last.pre.facts, n)
                  = Result(last.pre.state, last.pre.facts, NONE)
        /\ LastType \in UnhandledTypes =>
              /\ ~last.raises
              /\ last.ret
              /\ View(store) = View(last.pre)

\* A RELATIONSHIP_UPDATE is dispatched to a store whose state and facts
\* earlier events have changed.
C19_Witness ==
    /\ LastType = "RELATIONSHIP_UPDATE"
    /\ last.ret
    /\ store.state.mood = "Angry"
    /\ Len(store.facts) >= 2
    /\ View(store) = View(last.pre)

\* ------------------------------------------------ the admission of facts
\* FACT_ADD events whose texts are written out character by character.
Repeat(c, n) == [i \in 1..n |-> c]

AdmitTexts ==
    {<<>>, <<"o", "k">>,
     Repeat("x", MaxFactLen), Repeat("x", MaxFactLen + 1),
     <<"<", "|">>, <<"a", "|", ">", "b">>, <<"<", "a", "|", ">">>, <<"<", "a", "|">>,
     <<"S", "y", "s", "t", "e", "m", " ", "I", "N", "S", "T", "R", "U", "C", "T", "I", "O", "N", "s">>,
     <<"s", "y", "s", "t", "e", "m", "i", "n", "s", "t", "r", "u", "c", "t", "i", "o", "n">>}

AdmitEvents ==
    {fact_add_chars(text, NONE) : text \in AdmitTexts} \cup {fact_decay_event(3, 4)}

AdmitReduce ==
    /\ store.seq < MaxAdmit
    /\ \E ev \in AdmitEvents, now \in Times :
          LET r == dispatch(store, ev, <<now>>)
          IN /\ store' = r.store
             /\ last' = [event |-> ev, ret |-> r.ret, raises |-> r.raises,
                         pre |-> store, nows |-> <<now>>]
    /\ UNCHANGED <<base, heap, objs, concVars, txnVars, queueVars>>

AdmitNext == AdmitReduce

AdmitFacts == {<<>>, <<Fact(<<"o", "l", "d">>, 1, 5)>>}

AdmitInit ==
    /\ \E s0 \in ReducerStates, f0 \in AdmitFacts : store = NewStore(s0, f0, 0)
    /\ last = NoLast
    /\ base = << >>
    /\ heap = NoCall
    /\ objs = NoObjects
    /\ ConcInit
    /\ TxnInit
    /\ bq = NewQueue(QueueCap, "OLDEST")
    /\ qpc = [t \in Producers \cup Consumers |-> QThreadIdle]
    /\ pipe = NewPipeline

SpecAdmit == AdmitInit /\ [][AdmitNext]_vars

\* Two characters are the same letter, whatever their case.
SameLetter(a, b) ==
    a = b \/ (a \in DOMAIN LowerOf /\ LowerOf[a] = b) \/ (b \in DOMAIN LowerOf /\ LowerOf[b] = a)

\* text holds token somewhere, case ignored.
HoldsIgnoringCase(text, token) ==
    \E i \in 1..(Len(text) - Len(token) + 1) :
        \A j \in DOMAIN token : SameLetter(text[i + j - 1], token[j])

LastFactAdd == last # NoLast /\ LastType = "FACT_ADD"

LastRejected ==
    \/ Len(last.event.payload.text) > 2000
    \/ \E token \in ForbiddenTokens : HoldsIgnoringCase(last.event.payload.text, token)

\* C31: a FACT_ADD whose text is longer than 2000 characters or holds "<|",
\* "|>" or "system instruction" in any case returns state and facts as they
\* were, emits no fact and raises nothing; every other FACT_ADD appends one
\* fact with the text at the end of the facts and leaves the others alone.
C31_FactAdmission ==
    LastFactAdd =>
        LET r == reduce_state(last.pre.state, last.event, last.pre.facts, last.nows[1])
            n == Len(last.pre.facts)
        IN /\ ~r.raised /\ ~last.raises
           /\ r.state = last.pre.state
           /\ View(store) = [state |-> r.state, facts |-> r.facts]
           /\ LastRejected =>
                 /\ r.facts = last.pre.facts
                 /\ r.emitted = NONE
           /\ ~LastRejected =>
                 /\ Len(r.facts) = n + 1
                 /\ SubSeq(r.facts, 1, n) = last.pre.facts
                 /\ r.facts[n + 1].text = last.event.payload.text
                 /\ r.emitted = last.event.payload.text

\* "System INSTRUCTIONs" was rejected by a store that had admitted a text of
\* exactly 2000 characters.
C31_Witness ==
    /\ LastFactAdd
    /\ Len(last.event.payload.text) = 19
    /\ last.event.payload.text[1] = "S"
    /\ Len(store.facts) = 2
    /\ Len(store.facts[2].text) = 2000
    /\ store.facts = last.pre.facts

\* ---------------------------------------------------- the store's objects
\* The store and its callers on one heap.  The callers hold the objects they
\* gave to the constructor and the objects the snapshot calls returned, and
\* write to them at will; the store variable is the same store computed on
\* values, which no caller's write can reach.

CopyEvents ==
    {affinity_delta_event(-3, NONE), fact_add_event("note", 4, FALSE, NONE),
     fact_decay_event(3, 4)}

\* The constructor's arguments: no fact or two.
CopyFacts == {f \in ReducerFacts : Len(f) # 1}

CopyInit ==
    /\ \E f0 \in CopyFacts :
          /\ store = NewStore(InitialState, f0, 0)
          /\ objs = NewObjects(Objects(InitialState, f0), 1,
                               Len(Objects(InitialState, f0)))
    /\ last = NoLast
    /\ base = << >>
    /\ heap = NoCall
    /\ ConcInit
    /\ TxnInit
    /\ bq = NewQueue(QueueCap, "OLDEST")
    /\ qpc = [t \in Producers \cup Consumers |-> QThreadIdle]
    /\ pipe = NewPipeline

\* dispatch of an event with no transaction id: _apply_event on the objects.
K_Dispatch ==
    /\ store.seq < MaxCopyEvents
    /\ \E ev \in CopyEvents :
          LET r == o_reduce_state(objs.heap, objs.state, objs.facts, ev, 1)
          IN /\ store' = dispatch(store, ev, <<1>>).store
             /\ objs' = IF r.raised
                        THEN [objs EXCEPT !.heap = r.heap]
                        ELSE [objs EXCEPT !.heap = r.heap, !.state = r.state,
                                          !.facts = r.facts]
    /\ UNCHANGED <<last, base, heap, concVars, txnVars, queueVars>>

\* get_snapshot() or get_facts_snapshot(): the caller holds what it returns.
K_Snapshot ==
    /\ objs.calls < MaxSnapshots
    /\ \E a \in {objs.state, objs.facts} :
          LET c == deepcopy(objs.heap, a)
          IN objs' = [objs EXCEPT !.heap = c.heap,
                                  !.held = @ \cup Reachable(c.heap, {c.addr}),
                                  !.calls = @ + 1]
    /\ UNCHANGED <<store, last, base, heap, concVars, txnVars, queueVars>>

\* A caller writes to an object it holds: a field of a state or of a Fact,
\* or the content of a list.
K_Mutate ==
    /\ objs.writes < MaxWrites
    /\ \E a \in objs.held :
          LET o == objs.heap[a]
              w == IF "items" \in DOMAIN o THEN [o EXCEPT !.items = <<>>]
                   ELSE IF "salience" \in DOMAIN o
                   THEN [o EXCEPT !.salience = 0, !.text = "changed"]
                   ELSE [o EXCEPT !.affinity = -7, !.mood = "changed"]
          IN objs' = [objs EXCEPT !.heap[a] = w, !.writes = @ + 1]
    /\ UNCHANGED <<store, last, base, heap, concVars, txnVars, queueVars>>

CopyNext == K_Dispatch \/ K_Snapshot \/ K_Mutate

SpecCopy == CopyInit /\ [][CopyNext]_vars

\* C21: whatever the callers write to the objects get_snapshot and
\* get_facts_snapshot returned and to the objects given to the constructor,
\* the store's state and facts, and so what the next snapshot call returns,
\* are those of a store nobody wrote to.
C21_SnapshotsAreIndependentCopies ==
    /\ objs.heap[objs.state] = get_snapshot(store)
    /\ FactsAt(objs.heap, objs.facts) = get_facts_snapshot(store)
    /\ Reachable(objs.heap, {objs.state, objs.facts}) \cap objs.held = {}

\* The callers wrote to a returned state and emptied a returned facts list,
\* and the store still holds its two facts and a state changed by a dispatch.
C21_Witness ==
    /\ objs.calls = 2
    /\ \E a \in objs.held : objs.heap[a] = [get_snapshot(store) EXCEPT !.affinity = -7,
                                                                       !.mood = "changed"]
    /\ \E a \in objs.held : /\ "items" \in DOMAIN objs.heap[a]
                             /\ objs.heap[a].items = <<>>
    /\ Len(get_facts_snapshot(store)) = 2
    /\ store.seq >= 1
    /\ objs.heap[objs.state] = get_snapshot(store)

\* ------------------------------------------- the store under two threads
\* One thread dispatches, one thread reads.  dispatch holds self._lock from
\* line 107 to its return; the replay loop of _commit_transaction is run one
\* _apply_event at a time with the lock held, so that the states between two
\* buffered events exist in the model.

\* Mutant of CanAcquire: the lock keeps nobody out.
CanAcquireAlways(owner, who) == TRUE

\* threading.RLock: free, or already held by the asking thread.
CanAcquire(owner, who) == owner = NONE \/ owner = who

ConcInputs ==
    {affinity_delta_event(-3, "t1"), fact_add_event("fact", 4, FALSE, "t1"),
     affinity_delta_event(5, NONE)} \cup ControlEvents("t1")

\* The dispatching thread is between two events of a commit's replay.
MidReplay ==
    wpc.pc = "replay" /\ Len(wpc.pending) > 0 /\ Len(wpc.pending) < wpc.k

\* dispatch up to the replay loop: `with self._lock`, lines 108-143, and for
\* a commit of an open transaction lines 185-191.
W_Dispatch ==
    /\ wpc.pc = "idle"
    /\ CanAcquire(lock, "w")
    /\ store.seq < MaxDispatch
    /\ lock' = "w"
    /\ \E ev \in ConcInputs :
         IF ev.event_type = "TRANSACTION_COMMIT" /\ ev.convo_id \in DOMAIN store.transactions
         THEN LET S1 == AssignSeq(store, ev)
              IN /\ store' = [S1 EXCEPT !.transactions = RemoveTxn(@, ev.convo_id)]
                 /\ wpc' = [pc |-> "replay", pending |-> store.transactions[ev.convo_id],
                            k |-> Len(store.transactions[ev.convo_id])]
         ELSE \E nows \in NowSeqs(Reductions(store, ev)) :
                 /\ store' = dispatch(store, ev, nows).store
                 /\ wpc' = [pc |-> "release", pending |-> <<>>, k |-> 0]
    /\ views' = views \cup {View(store')}
    /\ UNCHANGED <<histVars, rpc, observed, dpc, txnVars, queueVars>>

\* One iteration of `for buffered_event in txn.events: self._apply_event(...)`.
W_ReplayStep ==
    /\ wpc.pc = "replay"
    /\ wpc.pending # <<>>
    /\ \E nows \in NowSeqs(<<Head(wpc.pending)>>) :
          store' = _apply_event(store, Head(wpc.pending), nows[1]).store
    /\ wpc' = [wpc EXCEPT !.pending = Tail(@)]
    /\ views' = IF Tail(wpc.pending) = <<>> THEN views \cup {View(store')} ELSE views
    /\ UNCHANGED <<histVars, lock, rpc, observed, dpc, txnVars, queueVars>>

\* dispatch returns: the `with` block releases the lock.
W_Release ==
    /\ \/ wpc.pc = "release"
       \/ wpc.pc = "replay" /\ wpc.pending = <<>>
    /\ lock' = NONE
    /\ wpc' = WriterIdle
    /\ UNCHANGED <<store, histVars, rpc, observed, views, dpc, txnVars, queueVars>>

\* The reading thread calls get_snapshot or get_facts_snapshot and waits
\* for the lock.
R_Call ==
    /\ rpc.pc = "idle"
    /\ \E c \in {"get_snapshot", "get_facts_snapshot"} :
          rpc' = [pc |-> "acquire", call |-> c, during |-> MidReplay]
    /\ UNCHANGED <<store, histVars, lock, wpc, observed, views, dpc, txnVars, queueVars>>

\* `with self._lock: return copy.deepcopy(...)`.
R_Return ==
    /\ rpc.pc = "acquire"
    /\ CanAcquire(lock, "r")
    /\ observed' = [call |-> rpc.call,
                    value |-> IF rpc.call = "get_snapshot"
                              THEN <<get_snapshot(store)>>
                              ELSE get_facts_snapshot(store),
                    during |-> rpc.during]
    /\ rpc' = ReaderIdle
    /\ UNCHANGED <<store, histVars, lock, wpc, views, dpc, txnVars, queueVars>>

ConcNext == W_Dispatch \/ W_ReplayStep \/ W_Release \/ R_Call \/ R_Return

SpecConc == Init /\ [][ConcNext]_vars

\* C3: no get_snapshot or get_facts_snapshot of another thread returns a
\* state that lies between two events of a commit: every value read is one
\* the store held before or after a whole dispatch.
C3_ReadersSeeNoPartialCommit ==
    /\ observed.call = "get_snapshot" =>
          \E v \in views : observed.value = <<v.state>>
    /\ observed.call = "get_facts_snapshot" =>
          \E v \in views : observed.value = v.facts

\* A get_snapshot called between the two events of a commit returned the
\* state after both.
C3_Witness ==
    /\ observed.call = "get_snapshot"
    /\ observed.during
    /\ observed.value = <<[InitialState EXCEPT !.affinity = 1]>>
    /\ store.seq = 4

\* ------------------------------------- several threads dispatch at once
\* Two threads call dispatch with events that carry no transaction id.  The
\* body of dispatch is cut where another thread could run if nothing kept it
\* out: after the event is numbered and logged, and between the call of
\* reduce_state and the assignment of its result.

ParEvents ==
    {affinity_delta_event(5, NONE), affinity_delta_event(-3, NONE),
     mood_set_event("Happy", NONE)}

ParStore == NewStore(InitialState, <<>>, DefaultEventLog)

ParInit ==
    /\ store = ParStore
    /\ last = NoLast
    /\ base = << >>
    /\ heap = NoCall
    /\ objs = NoObjects
    /\ ConcInit
    /\ TxnInit
    /\ bq = NewQueue(QueueCap, "OLDEST")
    /\ qpc = [t \in Producers \cup Consumers |-> QThreadIdle]
    /\ pipe = NewPipeline

ParUnchanged == UNCHANGED <<histVars, wpc, rpc, observed, views, txnVars, queueVars>>

\* A thread calls dispatch(event) and asks for the lock; blocked records
\* whether another thread held it at that moment.
D_Call ==
    /\ \E t \in Dispatchers, ev \in ParEvents :
          /\ dpc[t].pc = "idle"
          /\ dpc["d1"].calls + dpc["d2"].calls < MaxParDispatch
          /\ dpc' = [dpc EXCEPT ![t] = [pc |-> "acquire", event |-> ev, res |-> <<>>,
                                        blocked |-> lock # NONE, calls |-> @.calls + 1]]
    /\ UNCHANGED <<store, lock>>
    /\ ParUnchanged

\* dispatch, lines 107-121: the lock is taken, the event numbered and logged.
D_Enter ==
    /\ \E t \in Dispatchers :
          /\ dpc[t].pc = "acquire"
          /\ CanAcquire(lock, t)
          /\ lock' = t
          /\ store' = AssignSeq(store, dpc[t].event)
          /\ dpc' = [dpc EXCEPT ![t].pc = "reduce",
                                ![t].event = [@ EXCEPT !.seq = store.seq + 1]]
    /\ ParUnchanged

\* _apply_event, lines 147-149: reduce_state on the state and facts the
\* store holds now.
D_Reduce ==
    /\ \E t \in Dispatchers :
          /\ dpc[t].pc = "reduce"
          /\ store' = [store EXCEPT !.reduced = Append(@, dpc[t].event.seq)]
          /\ dpc' = [dpc EXCEPT ![t].pc = "assign",
                                ![t].res = <<reduce_state(store.state, dpc[t].event,
                                                          store.facts, 1)>>]
    /\ UNCHANGED lock
    /\ ParUnchanged

\* _apply_event, lines 150-167, and the end of the `with` block: the result
\* is assigned, the subscribers are called, the lock is released.
D_Return ==
    /\ \E t \in Dispatchers :
          /\ dpc[t].pc = "assign"
          /\ LET r == dpc[t].res[1]
             IN store' = IF r.raised THEN store
                         ELSE [store EXCEPT !.state = r.state,
                                            !.facts = r.facts,
                                            !.notified = NotifyAll(@, store.subscribers,
                                                                   r.state, dpc[t].event)]
          /\ lock' = NONE
          /\ dpc' = [dpc EXCEPT ![t].pc = "idle"]
    /\ ParUnchanged

ParNext == D_Call \/ D_Enter \/ D_Reduce \/ D_Return

SpecPar == ParInit /\ [][ParNext]_vars

\* The store after the events are dispatched one after the other by one thread.
RECURSIVE DispatchAll(_, _)
DispatchAll(S, events) ==
    IF events = <<>> THEN S
    ELSE DispatchAll(dispatch(S, [Head(events) EXCEPT !.seq = 0], <<1>>).store, Tail(events))

InsideDispatch == {t \in Dispatchers : dpc[t].pc \in {"reduce", "assign"}}

\* C30: when several threads dispatch events with no transaction id at once,
\* the events in the log carry the numbers 1, 2, 3, ..., each once; no thread
\* is inside dispatch while another is; and once every call has returned the
\* store is the one a single thread gets by dispatching the logged events
\* in the order of their numbers.
C30_ConcurrentDispatchSerialized ==
    /\ \A i \in DOMAIN store.event_log : store.event_log[i].seq = i
    /\ store.seq = Len(store.event_log)
    /\ Cardinality(InsideDispatch) <= 1
    /\ \A t \in InsideDispatch : lock = t
    /\ (\A t \in Dispatchers : dpc[t].pc \in {"idle", "acquire"}) =>
          store = DispatchAll(ParStore, store.event_log)

\* d1 added 0.5 and d2, which had to wait for the lock, took away 0.3: the
\* affinity is that of +0.5 clamped, then -0.3.
C30_Witness ==
    /\ \A t \in Dispatchers : dpc[t].pc = "idle"
    /\ dpc["d2"].blocked
    /\ store.seq = 2
    /\ store.event_log[1].payload = [delta |-> 5, numeric |-> TRUE]
    /\ store.event_log[2] = dpc["d2"].event
    /\ dpc["d2"].event.payload = [delta |-> -3, numeric |-> TRUE]
    /\ dpc["d1"].calls = 1
    /\ store.state.affinity = 7

\* ------------------------------------------------------ StreamTransaction
\* The object has no lock of its own: a method is a sequence of steps, and
\* each store.dispatch inside it is atomic under the store's lock.

\* Mutant of is_active: the aborted flag is not looked at.
IsActiveIgnoresAborted(T) == T.started /\ ~T.committed

is_active(T) == T.started /\ ~T.committed /\ ~T.aborted

\* Positions at which a thread is outside commit (abort): not yet called, or
\* returned, or left by the exception of the is_active check.
AtRest == {"idle", "done", "raised"}

\* The text deltas, audio chunks and state changes the transaction holds
\* beside the user turn start buffered.
Accumulated(T) ==
    Len(T.text_buffer) + Len(T.audio_chunks) + Len(T.pending_events) - 1

\* No commit and no abort is in progress.
NoCallRunning == tpc.c \in AtRest /\ tpc.a \in AtRest

final_text(T) == T.text_buffer

\* Mutant of _emit_frame: the frame takes the current number, not the next.
EmitFrameSameSeq(T, frame) ==
    [T EXCEPT !.frames = Append(@, [frame EXCEPT !.seq = T.seq])]

\* _next_seq and _emit_frame
_emit_frame(T, frame) ==
    [T EXCEPT !.seq = T.seq + 1,
              !.frames = Append(@, [frame EXCEPT !.seq = T.seq + 1])]

Frame(type) == [frame_type |-> type, seq |-> 0]

Dispatch1(S, ev) == dispatch(S, ev, <<1>>)

\* start(player_input)
T_Start ==
    /\ NoCallRunning
    /\ IF txn.started
       THEN /\ tres' = [op |-> "start", raises |-> TRUE]
            /\ UNCHANGED <<txn, store, tpc>>
       ELSE /\ store' = Dispatch1(store, transaction_begin_event(txn.convo_id)).store
            /\ txn' = [_emit_frame([txn EXCEPT !.started = TRUE], Frame("start"))
                          EXCEPT !.pending_events =
                                    Append(@, turn_add_event("user", "hello", txn.convo_id))]
            /\ tres' = [op |-> "start", raises |-> FALSE]
            /\ tpc' = [tpc EXCEPT !.begun = View(store), !.clean = TRUE]
    /\ UNCHANGED <<histVars, concVars, queueVars>>

\* add_text(delta)
T_AddText ==
    /\ NoCallRunning
    /\ ~is_active(txn) \/ Accumulated(txn) < MaxQueued
    /\ \E delta \in {"a", "b"} :
         IF ~is_active(txn)
         THEN /\ tres' = [op |-> "add_text", raises |-> TRUE]
              /\ UNCHANGED txn
         ELSE /\ txn' = _emit_frame([txn EXCEPT !.text_buffer = Append(@, delta)],
                                    [Frame("text") EXCEPT !.frame_type = "text"])
              /\ tres' = [op |-> "add_text", raises |-> FALSE]
    /\ UNCHANGED <<store, histVars, concVars, queueVars, tpc>>

\* queue_affinity_change(delta) and queue_mood_change(mood)
T_Queue ==
    /\ NoCallRunning
    /\ ~is_active(txn) \/ Accumulated(txn) < MaxQueued
    /\ \E ev \in {affinity_delta_event(2, txn.convo_id), affinity_delta_event(-3, txn.convo_id),
                  mood_set_event("Pleased", txn.convo_id)} :
         IF ~is_active(txn)
         THEN /\ tres' = [op |-> "queue", raises |-> TRUE]
              /\ UNCHANGED txn
         ELSE /\ txn' = [txn EXCEPT !.pending_events = Append(@, ev)]
              /\ tres' = [op |-> "queue", raises |-> FALSE]
    /\ UNCHANGED <<store, histVars, concVars, queueVars, tpc>>

\* add_audio(audio_data)
T_AddAudio ==
    /\ NoCallRunning
    /\ ~is_active(txn) \/ Accumulated(txn) < MaxQueued
    /\ IF ~is_active(txn)
       THEN /\ tres' = [op |-> "add_audio", raises |-> TRUE]
            /\ UNCHANGED txn
       ELSE /\ txn' = _emit_frame([txn EXCEPT !.audio_chunks = Append(@, "pcm")],
                                  [Frame("audio") EXCEPT !.frame_type = "audio"])
            /\ tres' = [op |-> "add_audio", raises |-> FALSE]
    /\ UNCHANGED <<store, histVars, concVars, queueVars, tpc>>

\* Mutant of queue_fact: the fact event goes to the store at once, outside
\* the transaction.
QueueFactAppliesNow(T, S, text) ==
    [txn |-> T, store |-> Dispatch1(S, fact_add_event(text, 4, FALSE, NONE)).store]

\* queue_fact(text, tags, salience), past its is_active check.
queue_fact(T, S, text) ==
    [txn |-> [T EXCEPT !.pending_events = Append(@, fact_add_event(text, 4, FALSE, T.convo_id))],
     store |-> S]

T_QueueFact ==
    /\ NoCallRunning
    /\ ~is_active(txn) \/ Accumulated(txn) < MaxQueued
    /\ IF ~is_active(txn)
       THEN /\ tres' = [op |-> "queue_fact", raises |-> TRUE]
            /\ UNCHANGED <<txn, store>>
       ELSE /\ txn' = queue_fact(txn, store, "fact").txn
            /\ store' = queue_fact(txn, store, "fact").store
            /\ tres' = [op |-> "queue_fact", raises |-> FALSE]
    /\ UNCHANGED <<histVars, concVars, queueVars, tpc>>

\* commit, line 260: `if not self.is_active: raise`.
C_Check ==
    /\ tpc.c \in AtRest
    /\ IF is_active(txn)
       THEN tpc' = [tpc EXCEPT !.c = "mark"] /\ UNCHANGED tres
       ELSE tpc' = [tpc EXCEPT !.c = "raised"] /\ tres' = [op |-> "commit", raises |-> TRUE]
    /\ UNCHANGED <<store, histVars, concVars, queueVars, txn>>

\* commit, lines 263-289: the flag, the metrics and state_changes of the
\* frame, and the assistant turn appended to the pending events.
C_Mark ==
    /\ tpc.c = "mark"
    /\ txn' = [txn EXCEPT !.committed = TRUE,
                          !.pending_events =
                              Append(@, turn_add_event("assistant", final_text(txn), txn.convo_id))]
    /\ tpc' = [tpc EXCEPT !.c = "loop", !.i = 1, !.pre = View(store), !.clean = TRUE,
                          !.frame = [frame_type |-> "commit", seq |-> 0,
                                     final_text |-> final_text(txn),
                                     events_applied |-> Len(txn.pending_events),
                                     events |-> txn.pending_events]]
    /\ UNCHANGED <<store, histVars, concVars, queueVars, tres>>

\* Mutant of PendingAt: the pending events are taken last to first.
PendingAtReversed(T, i) == T.pending_events[Len(T.pending_events) + 1 - i]

\* commit, line 292: the i-th event of `for event in self._pending_events`.
PendingAt(T, i) == T.pending_events[i]

\* commit, lines 292-293: one store.dispatch(event) of the loop.
C_DispatchNext ==
    /\ tpc.c = "loop"
    /\ tpc.i <= Len(txn.pending_events)
    /\ store' = Dispatch1(store, PendingAt(txn, tpc.i)).store
    /\ tpc' = [tpc EXCEPT !.i = @ + 1, !.sent = @ \cup {store.seq + 1}]
    /\ UNCHANGED <<histVars, concVars, queueVars, txn, tres>>

\* commit, lines 296-299: store.dispatch(transaction_commit_event(...)).
C_DispatchCommit ==
    /\ tpc.c = "loop"
    /\ tpc.i > Len(txn.pending_events)
    /\ \E nows \in NowSeqs(Reductions(store, transaction_commit_event(txn.convo_id))) :
          /\ store' = dispatch(store, transaction_commit_event(txn.convo_id), nows).store
          /\ tpc' = [tpc EXCEPT !.c = "emit", !.nows = nows]
    /\ UNCHANGED <<histVars, concVars, queueVars, txn, tres>>

\* commit, lines 301-316: the Commit frame is emitted and returned.
C_Emit ==
    /\ tpc.c = "emit"
    /\ txn' = _emit_frame(txn, tpc.frame)
    /\ tpc' = [tpc EXCEPT !.c = "done"]
    /\ tres' = [op |-> "commit", raises |-> FALSE]
    /\ UNCHANGED <<store, histVars, concVars, queueVars>>

\* abort, line 331: `if not self.is_active: raise`.
A_Check ==
    /\ tpc.a \in AtRest
    /\ IF is_active(txn)
       THEN tpc' = [tpc EXCEPT !.a = "mark"] /\ UNCHANGED tres
       ELSE tpc' = [tpc EXCEPT !.a = "raised"] /\ tres' = [op |-> "abort", raises |-> TRUE]
    /\ UNCHANGED <<store, histVars, concVars, queueVars, txn>>

\* abort, line 334: self._aborted = True.
A_Mark ==
    /\ tpc.a = "mark"
    /\ txn' = [txn EXCEPT !.aborted = TRUE]
    /\ tpc' = [tpc EXCEPT !.a = "dispatch"]
    /\ UNCHANGED <<store, histVars, concVars, queueVars, tres>>

\* abort, lines 337-341: store.dispatch(transaction_abort_event(...)).
A_Dispatch ==
    /\ tpc.a = "dispatch"
    /\ store' = Dispatch1(store, transaction_abort_event(txn.convo_id)).store
    /\ tpc' = [tpc EXCEPT !.a = "emit"]
    /\ UNCHANGED <<histVars, concVars, queueVars, txn, tres>>

\* abort, lines 343-357: the Abort frame is emitted and returned.
A_Emit ==
    /\ tpc.a = "emit"
    /\ txn' = _emit_frame(txn, Frame("abort"))
    /\ tpc' = [tpc EXCEPT !.a = "done"]
    /\ tres' = [op |-> "abort", raises |-> FALSE]
    /\ UNCHANGED <<store, histVars, concVars, queueVars>>

\* add_metadata(key, value): self._metadata[key] = value
add_metadata(T, key, value) == [T EXCEPT !.metadata = (key :> value) @@ @]

T_AddMetadata ==
    /\ NoCallRunning
    /\ \E key \in {"mood_hint"}, value \in {"calm", "angry"} :
          txn' = add_metadata(txn, key, value)
    /\ tres' = [op |-> "add_metadata", raises |-> FALSE]
    /\ UNCHANGED <<store, histVars, concVars, queueVars, tpc>>

\* Another thread dispatches TRANSACTION_ABORT for the transaction's id
\* straight to the store.
X_Abort ==
    /\ tpc.x = "idle"
    /\ txn.started
    /\ store' = Dispatch1(store, transaction_abort_event(txn.convo_id)).store
    /\ tpc' = [tpc EXCEPT !.x = "done"]
    /\ UNCHANGED <<histVars, concVars, queueVars, txn, tres>>

TxnNext ==
    \/ T_Start \/ T_AddText \/ T_AddAudio \/ T_Queue \/ T_QueueFact
    \/ C_Check \/ C_Mark \/ C_DispatchNext \/ C_DispatchCommit \/ C_Emit
    \/ A_Check \/ A_Mark \/ A_Dispatch \/ A_Emit
    \/ X_Abort

SpecTxn == Init /\ [][TxnNext]_vars

TerminalFrames(T) ==
    {i \in DOMAIN T.frames : T.frames[i].frame_type \in {"commit", "abort"}}

\* The store holds the view commit started from, or that view with every
\* event of the transaction reduced onto it.
StoreAllOrNothing ==
    LET all == reduce_events(tpc.pre.state, txn.pending_events, tpc.pre.facts,
                             [i \in DOMAIN txn.pending_events |-> 1])
    IN View(store) = tpc.pre \/ View(store) = [state |-> all.state, facts |-> all.facts]

\* C5: when commit() runs on an active transaction while another thread
\* aborts it (abort(), or TRANSACTION_ABORT dispatched to the store), the
\* store ends in the state it had when commit began or in that state with
\* all of the transaction's events reduced onto it, not both commit and abort
\* return a frame, and at most one terminal frame is emitted.
C5_CommitAbortNoPartialEffect ==
    (/\ tpc.c = "done"
     /\ tpc.a \in {"done", "raised"} \/ tpc.x = "done") =>
        /\ StoreAllOrNothing
        /\ ~(tpc.c = "done" /\ tpc.a = "done")
        /\ Cardinality(TerminalFrames(txn)) <= 1

\* ------------------------------------- StreamTransaction, one caller
\* The calls on the transaction object are made one after the other: a
\* commit or an abort runs from its check to its return before the next call
\* starts.  Between two calls another component may dispatch an event of its
\* own, outside any transaction, to the same store.

S_Call == T_Start \/ T_AddText \/ T_AddAudio \/ T_Queue \/ T_QueueFact

S_Commit ==
    /\ tpc.a \in AtRest
    /\ C_Check \/ C_Mark \/ C_DispatchNext \/ C_DispatchCommit \/ C_Emit

S_Abort ==
    /\ tpc.c \in AtRest
    /\ A_Check \/ A_Mark \/ A_Dispatch \/ A_Emit

S_Other ==
    /\ NoCallRunning
    /\ ~txn.committed /\ ~txn.aborted
    /\ tpc.others < MaxOther
    /\ store' = Dispatch1(store, affinity_delta_event(5, NONE)).store
    /\ tpc' = [tpc EXCEPT !.clean = FALSE, !.others = @ + 1]
    /\ UNCHANGED <<histVars, concVars, queueVars, txn, tres>>

TxnSeqNext == S_Call \/ S_Commit \/ S_Abort \/ S_Other

SpecTxnSeq == Init /\ [][TxnSeqNext]_vars

\* One caller who also calls add_metadata, with no other component
\* dispatching to the store.
MetaNext == S_Call \/ S_Commit \/ S_Abort \/ T_AddMetadata

SpecMeta == Init /\ [][MetaNext]_vars

\* A call of add_metadata on a transaction whose committed or aborted flag is
\* set.
LaterMetadata ==
    /\ txn.committed \/ txn.aborted
    /\ T_AddMetadata

\* C34: add_metadata called on a committed or aborted transaction raises and
\* leaves the transaction's metadata as they were.
C34_AddMetadataSingleUse ==
    [][LaterMetadata => tres'.raises /\ txn'.metadata = txn.metadata]_vars

\* A step of a call other than commit.
NonCommitCall ==
    \/ T_Start \/ T_AddText \/ T_AddAudio \/ T_Queue \/ T_QueueFact
    \/ A_Check \/ A_Mark \/ A_Dispatch \/ A_Emit

\* C11: no step of start, add_text, add_audio, queue_affinity_change,
\* queue_mood_change, queue_fact or abort changes the store's state or facts,
\* and once abort has returned, with no dispatch of another component since
\* start, state and facts are those held before start.
C11_OnlyCommitChangesStore ==
    /\ [][NonCommitCall => View(store)' = View(store)]_vars
    /\ [](tpc.a = "done" /\ tpc.clean => View(store) = tpc.begun)

\* abort has returned on a transaction that holds text and a queued fact,
\* started on a state another component had changed.
C11_Witness ==
    /\ tpc.a = "done" /\ tpc.clean
    /\ tres = [op |-> "abort", raises |-> FALSE]
    /\ Len(txn.text_buffer) = 1
    /\ Len(txn.pending_events) = 2
    /\ \E i \in DOMAIN txn.pending_events : txn.pending_events[i].event_type = "FACT_ADD"
    /\ tpc.begun.state.affinity = AffMax
    /\ View(store) = tpc.begun

\* A call that starts on a transaction whose committed or aborted flag is set.
LaterCall ==
    /\ txn.committed \/ txn.aborted
    /\ T_Start \/ T_AddText \/ T_AddAudio \/ T_Queue \/ T_QueueFact \/ C_Check \/ A_Check

\* C12: a call of start, add_text, add_audio, queue_*, commit or abort made
\* after the transaction committed or aborted raises, dispatches nothing and
\* emits no frame; so the transaction never holds two terminal frames.
C12_TerminalCallsRaise ==
    /\ [][LaterCall => /\ tres'.raises
                       /\ store' = store
                       /\ txn' = txn
                       /\ tpc'.c \in AtRest /\ tpc'.a \in AtRest]_vars
    /\ [](Cardinality(TerminalFrames(txn)) <= 1)

\* commit was called on an aborted transaction and raised.
C12_Witness ==
    /\ txn.aborted /\ ~txn.committed
    /\ tpc.a = "done"
    /\ tpc.c = "raised"
    /\ tres = [op |-> "commit", raises |-> TRUE]
    /\ Cardinality(TerminalFrames(txn)) = 1

\* C13: when commit returns, state and facts are reduce_events, onto the
\* state and facts held when commit was called, of the user turn, the queued
\* events in queue order and the assistant turn, and the store has no open
\* transaction for the convo_id.
C13_CommitAppliesQueuedInOrder ==
    (tpc.c = "done" /\ tpc.clean) =>
        LET n == Len(txn.pending_events)
            all == reduce_events(tpc.pre.state, txn.pending_events, tpc.pre.facts, tpc.nows)
        IN /\ Len(tpc.nows) = n
           /\ txn.pending_events[1] = turn_add_event("user", "hello", txn.convo_id)
           /\ txn.pending_events[n] =
                 turn_add_event("assistant", final_text(txn), txn.convo_id)
           /\ ~all.raised
           /\ View(store) = [state |-> all.state, facts |-> all.facts]
           /\ txn.convo_id \notin DOMAIN store.transactions

\* A commit, on a state another component had changed since start, of two
\* queued affinity changes whose order shows in the result because the first
\* one is clamped.
C13_Witness ==
    /\ tpc.c = "done" /\ tpc.clean
    /\ Len(txn.pending_events) = 4
    /\ txn.pending_events[2] = affinity_delta_event(2, txn.convo_id)
    /\ txn.pending_events[3] = affinity_delta_event(-3, txn.convo_id)
    /\ tpc.begun.state.affinity = 7
    /\ tpc.pre.state.affinity = AffMax
    /\ store.state.affinity = 7

\* C27: the frames of a transaction are numbered 1, 2, 3, ... in emission
\* order, whatever the store's sequence number; the first frame is the Start
\* frame and the only one, a Commit or Abort frame is the last frame, and
\* there is at most one of them.
C27_FramesNumberedStartFirstTerminalLast ==
    /\ txn.seq = Len(txn.frames)
    /\ \A i \in DOMAIN txn.frames :
          /\ txn.frames[i].seq = i
          /\ (txn.frames[i].frame_type = "start") <=> (i = 1)
          /\ txn.frames[i].frame_type \in {"commit", "abort"} => i = Len(txn.frames)
    /\ Cardinality(TerminalFrames(txn)) <= 1
    /\ txn.started <=> txn.frames # <<>>

\* Start, a text frame and the Commit frame, numbered 1 to 3, on a store
\* that has numbered six events or more, and a later add_text that raised.
C27_Witness ==
    /\ Len(txn.frames) = 3
    /\ txn.frames[1].frame_type = "start"
    /\ txn.frames[2].frame_type = "text"
    /\ txn.frames[3].frame_type = "commit"
    /\ txn.frames[3].seq = 3
    /\ store.seq >= 6
    /\ tres = [op |-> "add_text", raises |-> TRUE]

\* commit has returned its Commit frame, the last frame of the transaction.
CommitReturned ==
    /\ tpc.c = "done"
    /\ txn.frames # <<>>
    /\ txn.frames[Len(txn.frames)].frame_type = "commit"

\* The events the loop of commit handed to store.dispatch, in order.
DispatchedByCommit == [i \in 1..Cardinality(tpc.sent) |-> PendingAt(txn, i)]

\* C28: the Commit frame carries the add_text deltas in call order as
\* final_text, and its events list, counted by events_applied, is the list of
\* events commit dispatched to the store, the assistant turn included.
C28_CommitFrameListsDispatchedEvents ==
    CommitReturned =>
        LET frame == txn.frames[Len(txn.frames)]
        IN /\ frame.final_text = txn.text_buffer
           /\ frame.events = DispatchedByCommit
           /\ frame.events_applied = Len(DispatchedByCommit)

\* ------------------------------------------------------------ BoundedQueue
\* Every `with self._lock` block is one action: the mutex is held only
\* inside an action, except across Condition.wait, which releases it, parks
\* the thread on the condition's waiter list and takes the mutex again once
\* the thread was notified or its timeout ran out.

\* Condition.notify(): the longest-waiting thread, if any, is woken.
notify(Q, P, cond) ==
    IF Q[cond] = <<>>
    THEN [bq |-> Q, qpc |-> P]
    ELSE [bq |-> [Q EXCEPT ![cond] = Tail(@)],
          qpc |-> [P EXCEPT ![Head(Q[cond])].pc = "notified"]]

\* Condition.notify_all()
notify_all(Q, P, cond) ==
    [bq |-> [Q EXCEPT ![cond] = <<>>],
     qpc |-> [t \in DOMAIN P |->
                IF t \in {Q[cond][i] : i \in DOMAIN Q[cond]}
                THEN [P[t] EXCEPT !.pc = "notified"] ELSE P[t]]]

\* Condition.wait(timeout) entered by thread t; with timeout None the wait
\* ends only when the thread is notified.
wait(Q, P, cond, t, item, timeout) ==
    [bq |-> [Q EXCEPT ![cond] = Append(@, t)],
     qpc |-> [P EXCEPT ![t] = [pc |-> "waiting", item |-> item, ret |-> NONE,
                               timeout |-> timeout]]]

Return(R, t, value) ==
    [R EXCEPT !.qpc[t] = [pc |-> "idle", item |-> NONE, ret |-> value, timeout |-> NONE]]

\* The DropEvent _record_drop builds.
DropEvent(Q) == [stage |-> Q.stage, policy |-> Q.drop_policy, queue_size |-> Len(Q.queue)]

\* _record_drop, lines 186-190: on_drop, if there is one, is called with the
\* event.
CallOnDrop(Q, event) ==
    IF Q.on_drop # NONE
    THEN [Q EXCEPT !.called = Append(@, [callback |-> Q.on_drop, event |-> event])]
    ELSE Q

\* Mutant of _record_drop: the drop is logged and not counted.
RecordDropUncounted(Q) ==
    CallOnDrop([Q EXCEPT !.drops = Append(@, DropEvent(Q))], DropEvent(Q))

\* BoundedQueue._record_drop
_record_drop(Q) ==
    CallOnDrop([Q EXCEPT !.drop_count = @ + 1, !.drops = Append(@, DropEvent(Q))],
               DropEvent(Q))

\* What a drop callback does: it returns, it raises, or it calls size(),
\* stats(), get_nowait() or put() of the queue that called it.
Returning == {"cb1", "cb2"}
Raising == {"raises"}
CallsQueue == {"calls_size", "calls_stats", "calls_get_nowait", "calls_put"}

\* _record_drop runs inside put's `with self._lock`, and size, stats,
\* get_nowait and put each start with `with self._lock`: _lock is a
\* threading.Lock, which its owner cannot take a second time, so the thread
\* stays inside the callback with the mutex held. An exception of the
\* callback is caught at line 189.
InCallback(Q, P, t, item) ==
    [bq |-> [Q EXCEPT !.mutex = t],
     qpc |-> [P EXCEPT ![t] = [pc |-> "on_drop", item |-> item, ret |-> NONE,
                               timeout |-> NONE]]]

\* put, lines 132-134: append, notify a consumer, return True.
AppendItem(Q, P, t, item) ==
    Return(notify([Q EXCEPT !.queue = Append(@, item)], P, "not_empty"), t, "True")

\* Mutant of popleft: the newest item is removed.
pop(queue) == SubSeq(queue, 1, Len(queue) - 1)

\* deque.popleft() at line 116: the queue without its head.
popleft(queue) == Tail(queue)

\* put, lines 110-134, up to the wait of the BLOCK policy.
put(Q0, P, t, item, timeout) ==
    LET Q == [Q0 EXCEPT !.put_count = @ + 1, !.puts = Append(@, item), !.putter = t]
    IN IF Len(Q.queue) >= Q.maxsize
       THEN CASE Q.drop_policy = "OLDEST" ->
                    LET Q1 == _record_drop([Q EXCEPT !.queue = popleft(@)])
                    IN IF Q.on_drop \in CallsQueue
                       THEN InCallback(Q1, P, t, item)
                       ELSE AppendItem(Q1, P, t, item)
              [] Q.drop_policy = "NEWEST" ->
                    IF Q.on_drop \in CallsQueue
                    THEN InCallback(_record_drop(Q), P, t, item)
                    ELSE Return([bq |-> _record_drop(Q), qpc |-> P], t, "False")
              [] Q.drop_policy = "BLOCK" ->
                    wait(Q, P, "not_full", t, item, timeout)
       ELSE AppendItem(Q, P, t, item)

\* get and get_nowait, lines 153-156: count, pop the head, notify a producer.
TakeItem(Q, P, t) ==
    Return(notify([Q EXCEPT !.get_count = @ + 1, !.queue = Tail(@)], P, "not_full"),
           t, Head(Q.queue))

\* get, lines 146-156, up to the wait on an empty queue.
get(Q, P, t, timeout) ==
    IF Q.queue = <<>> THEN wait(Q, P, "not_empty", t, NONE, timeout) ELSE TakeItem(Q, P, t)

\* get_nowait
get_nowait(Q, P, t) ==
    IF Q.queue # <<>> THEN TakeItem(Q, P, t) ELSE Return([bq |-> Q, qpc |-> P], t, "None")

\* clear
clear(Q, P) ==
    notify_all([Q EXCEPT !.queue = <<>>, !.cleared = TRUE], P, "not_full")

RemoveWaiter(waiters, t) == SelectSeq(waiters, LAMBDA w : w # t)

\* A step of a thread on the queue: it takes the mutex, which must be free.
Step(R) == bq.mutex = NONE /\ bq' = R.bq /\ qpc' = R.qpc /\ pipe' = pipe

\* A producer calls put(item) or put(item, timeout).
P_Put ==
    /\ bq.put_count < MaxPuts
    /\ \E t \in Producers, item \in Items, timeout \in Timeouts :
          /\ qpc[t].pc = "idle"
          /\ Step(put(bq, qpc, t, item, timeout))
    /\ UNCHANGED <<store, histVars, concVars, txnVars>>

\* put, lines 129-134: the producer's wait returned True; the item is appended.
P_Wake ==
    /\ \E t \in Producers :
          /\ qpc[t].pc = "notified"
          /\ Step(AppendItem(bq, qpc, t, qpc[t].item))
    /\ UNCHANGED <<store, histVars, concVars, txnVars>>

\* put, lines 129-130: the producer's wait timed out; put returns False.
P_Timeout ==
    /\ \E t \in Producers :
          /\ qpc[t].pc = "waiting"
          /\ qpc[t].timeout # NONE
          /\ Step(Return([bq |-> [bq EXCEPT !.not_full = RemoveWaiter(@, t)], qpc |-> qpc],
                         t, "False"))
    /\ UNCHANGED <<store, histVars, concVars, txnVars>>

\* A consumer calls get() or get(timeout).
G_Get ==
    /\ \E t \in Consumers, timeout \in Timeouts :
          /\ qpc[t].pc = "idle"
          /\ Step(get(bq, qpc, t, timeout))
    /\ UNCHANGED <<store, histVars, concVars, txnVars>>

\* get, lines 150-156: the consumer's wait returned True; the queue is
\* looked at again.
G_Wake ==
    /\ \E t \in Consumers :
          /\ qpc[t].pc = "notified"
          /\ Step(get_nowait(bq, qpc, t))
    /\ UNCHANGED <<store, histVars, concVars, txnVars>>

\* get, lines 148-149: the consumer's wait timed out; get returns None.
G_Timeout ==
    /\ \E t \in Consumers :
          /\ qpc[t].pc = "waiting"
          /\ qpc[t].timeout # NONE
          /\ Step(Return([bq |-> [bq EXCEPT !.not_empty = RemoveWaiter(@, t)], qpc |-> qpc],
                         t, "None"))
    /\ UNCHANGED <<store, histVars, concVars, txnVars>>

\* A consumer calls get_nowait().
G_GetNowait ==
    /\ \E t \in Consumers :
          /\ qpc[t].pc = "idle"
          /\ Step(get_nowait(bq, qpc, t))
    /\ UNCHANGED <<store, histVars, concVars, txnVars>>

\* A consumer calls clear().
Q_Clear ==
    /\ \E t \in Consumers : qpc[t].pc = "idle"
    /\ Step(clear(bq, qpc))
    /\ UNCHANGED <<store, histVars, concVars, txnVars>>

QueueInit ==
    /\ StoreInit
    /\ ConcInit
    /\ TxnInit
    /\ \E policy \in Policies : bq = NewQueue(QueueCap, policy)
    /\ qpc = [t \in Producers \cup Consumers |-> QThreadIdle]
    /\ pipe = NewPipeline

QueueNext ==
    \/ P_Put \/ P_Wake \/ P_Timeout
    \/ G_Get \/ G_Wake \/ G_Timeout \/ G_GetNowait
    \/ Q_Clear

SpecQueue == QueueInit /\ [][QueueNext]_vars

size(Q) == Len(Q.queue)

\* C6: under every policy and every interleaving of put, get, get_nowait
\* and clear by two producers and a consumer, the queue never holds more
\* than maxsize items.
C6_QueueNeverExceedsCapacity == size(bq) <= bq.maxsize

\* C7: under OLDEST or NEWEST, after n puts and no get, size() <= C, and
\* once n > C, size() = C and drop_count = n - C.
C7_FloodBounded ==
    (bq.drop_policy \in {"OLDEST", "NEWEST"} /\ bq.get_count = 0 /\ ~bq.cleared) =>
        /\ size(bq) <= bq.maxsize
        /\ bq.put_count > bq.maxsize =>
              /\ size(bq) = bq.maxsize
              /\ bq.drop_count = bq.put_count - bq.maxsize

C7_Witness ==
    /\ bq.drop_policy = "OLDEST"
    /\ bq.get_count = 0 /\ ~bq.cleared
    /\ bq.put_count = bq.maxsize + 2
    /\ bq.drop_count = 2
    /\ size(bq) = bq.maxsize

\* A step of put() on a full queue under OLDEST or NEWEST.
PutOnFull ==
    /\ bq'.put_count = bq.put_count + 1
    /\ bq.drop_policy \in {"OLDEST", "NEWEST"}
    /\ size(bq) >= bq.maxsize

\* A step of get() or get_nowait() that takes an item.
Takes == bq'.get_count = bq.get_count + 1

Quiescent == \A t \in Producers \cup Consumers : qpc[t].pc = "idle"

\* C39: on a queue that was never cleared, whenever no call is in progress,
\* put_count = get_count + drop_count + size: every item passed to put is
\* still queued, was returned by a get or was recorded as a drop, under the
\* three policies, BLOCK puts whose wait timed out included.
C39_PutsAreAccountedFor ==
    (~bq.cleared /\ Quiescent) =>
        bq.put_count = bq.get_count + bq.drop_count + size(bq)

\* ------------------------------------------- BoundedQueue, drop callbacks
\* A queue under OLDEST or NEWEST that was built with an on_drop callback:
\* no producer ever waits, so the two steps of a waiting producer are left
\* out.
DropInit ==
    /\ StoreInit
    /\ ConcInit
    /\ TxnInit
    /\ \E policy \in {"OLDEST", "NEWEST"}, on_drop \in {"cb1"} \cup Raising \cup CallsQueue :
          bq = BoundedQueue(QueueCap, policy, "audio", on_drop)
    /\ qpc = [t \in Producers \cup Consumers |-> QThreadIdle]
    /\ pipe = NewPipeline

DropNext ==
    \/ P_Put
    \/ G_Get \/ G_Wake \/ G_Timeout \/ G_GetNowait
    \/ Q_Clear

SpecDrop == DropInit /\ [][DropNext]_vars

\* C40: a put that drops an item under OLDEST or NEWEST returns, True under
\* OLDEST and False under NEWEST, within the call, whatever the on_drop
\* callback does: return, raise, or call size(), stats(), get_nowait() or
\* put() of the same queue.
C40_DroppingPutReturns ==
    [][PutOnFull =>
          /\ qpc'[bq'.putter].pc = "idle"
          /\ qpc'[bq'.putter].ret = IF bq.drop_policy = "OLDEST" THEN "True" ELSE "False"
          /\ bq'.mutex = NONE]_vars

\* ---------------------------------------------------------------- Pipeline
\* One caller builds a pipeline, sets its drop callback, adds stages and puts
\* items into them, in any order.
Stages == {"tokens", "audio"}
StagePolicies == {NONE, "NEWEST"}

\* Python's `a or b` where a is None or an enum member
Or(a, b) == IF a = NONE THEN b ELSE a

\* Pipeline.set_drop_callback
set_drop_callback(Pl, callback) == [Pl EXCEPT !.drop_callback = callback]

\* Pipeline.add_stage, called without maxsize
add_stage(Pl, name, policy) ==
    [Pl EXCEPT !.queues = (name :> BoundedQueue(Pl.default_maxsize, Or(policy, Pl.default_policy),
                                                name, Pl.drop_callback)) @@ @]

\* Pipeline.get_stage(name) for a stage that was added
get_stage(Pl, name) == Pl.queues[name]

L_SetDropCallback ==
    /\ \E callback \in Returning : pipe' = set_drop_callback(pipe, callback)
    /\ UNCHANGED <<store, histVars, concVars, txnVars, bq, qpc>>

L_AddStage ==
    /\ \E name \in Stages, policy \in StagePolicies : pipe' = add_stage(pipe, name, policy)
    /\ UNCHANGED <<store, histVars, concVars, txnVars, bq, qpc>>

\* The caller puts an item into a stage: under OLDEST and NEWEST the put
\* returns within the call.
L_Put ==
    /\ \E name \in DOMAIN pipe.queues, item \in Items :
          /\ get_stage(pipe, name).put_count < MaxStagePuts
          /\ pipe' = [pipe EXCEPT !.queues[name] = put(@, qpc, "p1", item, NONE).bq]
    /\ UNCHANGED <<store, histVars, concVars, txnVars, bq, qpc>>

PipeInit ==
    /\ StoreInit
    /\ ConcInit
    /\ TxnInit
    /\ bq = NewQueue(QueueCap, "OLDEST")
    /\ qpc = [t \in Producers \cup Consumers |-> QThreadIdle]
    /\ \E policy \in {"OLDEST", "NEWEST"} : pipe = Pipeline(PipeMaxsize, policy)

PipeNext == L_SetDropCallback \/ L_AddStage \/ L_Put

SpecPipe == PipeInit /\ [][PipeNext]_vars

\* A step in which stage `name` drops an item.
DropIn(name) ==
    /\ name \in DOMAIN pipe.queues
    /\ name \in DOMAIN pipe'.queues
    /\ pipe'.queues[name].drop_count = pipe.queues[name].drop_count + 1

\* C33: once set_drop_callback(cb) was called, a drop in any stage of the
\* pipeline invokes cb, once, with the DropEvent of that stage, whether the
\* stage was added before or after the call of set_drop_callback.
C33_StagesShareDropCallback ==
    [][\A name \in Stages :
          (DropIn(name) /\ pipe.drop_callback # NONE) =>
              LET q == pipe'.queues[name]
              IN /\ q.drops[Len(q.drops)].stage = name
                 /\ q.called = Append(pipe.queues[name].called,
                                      [callback |-> pipe.drop_callback,
                                       event |-> q.drops[Len(q.drops)]])]_vars

\* ---------------------------------------------- BoundedQueue, scheduling
\* A thread whose wait was notified gets the mutex again and goes on, and a
\* wait with a timeout that is not notified ends when the timeout runs out.
\* Nothing obliges a caller to call put, get, get_nowait or clear.
Returns(t) == qpc[t].pc # "idle" /\ qpc'[t].pc = "idle"

QueueFairness ==
    /\ \A t \in Producers : WF_vars(P_Wake /\ Returns(t))
    /\ \A t \in Producers : WF_vars(P_Timeout /\ Returns(t))
    /\ \A t \in Consumers : WF_vars(G_Wake /\ Returns(t))
    /\ \A t \in Consumers : WF_vars(G_Timeout /\ Returns(t))

SpecQueueLive == QueueInit /\ [][QueueNext]_vars /\ QueueFairness

\* C24: every put and every get returns: a thread inside a call is
\* eventually outside of it.
C24_EveryCallReturns ==
    \A t \in Producers \cup Consumers : (qpc[t].pc # "idle") ~> (qpc[t].pc = "idle")

====
